---- MODULE Spec2Model ----
(***************************************************************************)
(* A model of the Hyrule storage node (LinkNavi/HyruleNode): the object    *)
(* store (storage.rs) over a small file system, the routing table          *)
(* (dht.rs), the HTTP handlers that write to the store (api.rs) and the    *)
(* replication sweep (replication.rs).                                     *)
(*                                                                         *)
(* Strings are TLA+ strings; a path is a sequence of path components.      *)
(* Identifiers are drawn from the data model's domain: repository hashes   *)
(* and object ids are fixed-length hex-like strings, ref names are HEAD or *)
(* live under refs/heads and refs/tags.                                    *)
(***************************************************************************)
EXTENDS Integers, Sequences, FiniteSets, TLC

VARIABLES
    config,        \* NodeState.config (main.rs:93): fixed after start-up
    dirs,          \* directories below GitStorage.base_path
    files,         \* regular files below base_path: path -> content
    hosted_repos,  \* NodeState.hosted_repos (main.rs:95), a Vec<String>
    stats,         \* NodeState.stats (main.rs:96)
    dht,           \* NodeState.dht (main.rs:97): the routing table
    written,       \* history: bytes of the latest successful store_object
    overwrote,     \* history: a store_object replaced other bytes
    initCalls,     \* history: successful init_repo calls per repository
    lastRef,       \* history: commit id of the latest successful update_ref
    health,        \* heartbeat_loop's uptime and the verification it spawns
    batch,         \* the batch-store request being served (api.rs:180-213)
    sweep,         \* locals of check_and_replicate (replication.rs:24-98)
    writers,       \* store_object calls under way on other threads
    locks,         \* the three RwLocks of NodeState and the tasks using them
    reqLog         \* history: outbound requests of the current sweep

vars == <<config, dirs, files, hosted_repos, stats, dht, written, overwrote,
          initCalls, lastRef, health, batch, sweep, writers, locks, reqLog>>

----------------------------------------------------------------------------
(* Bounds of the model *)

MaxBatch == 3      \* items in one batch-store request
MaxAnnounce == 3   \* entries kept per routing-table key
MaxUnhealthy == 2  \* candidates the registry reports in one sweep
MaxPeers == 2      \* peers the registry reports for one repository
MaxListing == 2    \* objects in one peer's listing
MaxSweeps == 2     \* sweeps explored

----------------------------------------------------------------------------
(* Inputs *)

RepoHashes == {"repo0001", "repo0002"}
ObjectIds == {"aa11bb22", "aa22bb11", "bb11aa22"}
NodeIds == {"node0000", "node1111"}
Commits == {"c0ffee01"}
\* commit ids as a client may send them, also with whitespace around
RefCommits == {"c0ffee01", " c0ffee02\n"}
RefNames == {<<"HEAD">>, <<"refs", "heads", "main">>}

\* Request payloads (StoreObjectRequest.data): base64 text, or not.
Payloads == {"", "aGk=", "!!"}
\* object ids a read may name: stored ids, and ids of other lengths
ReadIds == ObjectIds \cup {"", "a", "aa", "aa11"}

None == <<>>
Some(v) == <<v>>

----------------------------------------------------------------------------
(* Strings *)


RECURSIVE SumSeq(_)
SumSeq(s) == IF s = <<>> THEN 0 ELSE Head(s) + SumSeq(Tail(s))

RECURSIVE SetToSeq(_)
SetToSeq(S) ==
    IF S = {} THEN <<>>
    ELSE LET x == CHOOSE y \in S : TRUE IN <<x>> \o SetToSeq(S \ {x})

SeqToSet(s) == {s[i] : i \in 1..Len(s)}
Contains(s, x) == \E i \in 1..Len(s) : s[i] = x
Count(s, x) == Cardinality({i \in 1..Len(s) : s[i] = x})

IsSpace(c) == c \in {" ", "\n", "\t", "\r"}

RECURSIVE TrimStart(_)
TrimStart(s) ==
    IF Len(s) > 0 /\ IsSpace(SubSeq(s, 1, 1))
    THEN TrimStart(SubSeq(s, 2, Len(s))) ELSE s

RECURSIVE TrimEnd(_)
TrimEnd(s) ==
    IF Len(s) > 0 /\ IsSpace(SubSeq(s, Len(s), Len(s)))
    THEN TrimEnd(SubSeq(s, 1, Len(s) - 1)) ELSE s

\* str::trim
Trim(s) == TrimEnd(TrimStart(s))

----------------------------------------------------------------------------
(* base64 (general_purpose::STANDARD.decode) on the payloads of the model *)

Base64Decode(p) ==
    CASE p = ""     -> [ok |-> TRUE, data |-> ""]
      [] p = "aGk=" -> [ok |-> TRUE, data |-> "hi"]
      [] p = "eW8=" -> [ok |-> TRUE, data |-> "yo"]
      [] p = "!!"   -> [ok |-> FALSE, data |-> ""]

----------------------------------------------------------------------------
(* zlib: a two-byte header, the payload, the end-of-stream code and a   *)
(* checksum of the payload                                             *)

ZlibHeader == "x^"

CharCode(c) ==
    CASE c = "h" -> 104 [] c = "i" -> 105 [] c = "y" -> 121 [] c = "o" -> 111
      [] OTHER -> 63

Digit(n) ==
    CASE n = 0 -> "0" [] n = 1 -> "1" [] n = 2 -> "2" [] n = 3 -> "3"
      [] n = 4 -> "4" [] n = 5 -> "5" [] n = 6 -> "6" [] n = 7 -> "7"
      [] n = 8 -> "8" [] n = 9 -> "9"

RECURSIVE CharSum(_)
CharSum(s) ==
    IF Len(s) = 0 THEN 0
    ELSE CharCode(SubSeq(s, 1, 1)) + CharSum(SubSeq(s, 2, Len(s)))

Adler(s) == Digit((1 + CharSum(s)) % 10)

\* the code that ends the deflate stream; no payload byte encodes to it
EndOfStream == "$"

\* ZlibEncoder::write_all + finish (storage.rs:64-66)
Compress(data) == ZlibHeader \o data \o EndOfStream \o Adler(data)

\* a slip: the whole file is taken to be the stream
DecompressWhole(c) ==
    LET n == Len(c)
        body == SubSeq(c, 3, n - 2)
    IN  IF n >= 4 /\ SubSeq(c, 1, 2) = ZlibHeader
           /\ SubSeq(c, n - 1, n - 1) = EndOfStream /\ SubSeq(c, n, n) = Adler(body)
        THEN [ok |-> TRUE, data |-> body]
        ELSE [ok |-> FALSE, data |-> ""]

\* ZlibDecoder::read_to_end (storage.rs:86-88): decodes up to the end of the
\* stream and its checksum; bytes after them are not looked at
Decompress(c) ==
    LET n == Len(c)
        ends == {k \in 3..(n - 1) : SubSeq(c, k, k) = EndOfStream}
        e == CHOOSE k \in ends : \A j \in ends : k <= j
        body == SubSeq(c, 3, e - 1)
    IN  IF n >= 4 /\ SubSeq(c, 1, 2) = ZlibHeader /\ ends # {}
           /\ SubSeq(c, e + 1, e + 1) = Adler(body)
        THEN [ok |-> TRUE, data |-> body]
        ELSE [ok |-> FALSE, data |-> ""]

----------------------------------------------------------------------------
(* The file system under GitStorage.base_path.  A file-system value is a   *)
(* record [dirs, files]; an operation returns [st, fs] with st one of      *)
(* "Ok", "NotFound" (the anyhow "not found" bail) and "Io".                *)

FS(d, f) == [dirs |-> d, files |-> f]
Res(st, fs) == [st |-> st, fs |-> fs]
IsOk(r) == r.st = "Ok"

Prefixes(p) == {SubSeq(p, 1, k) : k \in 0..Len(p)}
Parent(p) == SubSeq(p, 1, Len(p) - 1)
IsFile(fs, p) == p \in DOMAIN fs.files
IsDir(fs, p) == p \in fs.dirs
\* Path::exists
Exists(fs, p) == IsFile(fs, p) \/ IsDir(fs, p)
Children(fs, p) ==
    {q \in fs.dirs \cup DOMAIN fs.files : Len(q) = Len(p) + 1 /\ Parent(q) = p}
Below(fs, p) ==
    {q \in DOMAIN fs.files : Len(q) >= Len(p) /\ SubSeq(q, 1, Len(p)) = p}

\* fs::create_dir_all: fails, creating nothing, when a prefix is a file
create_dir_all(fs, p) ==
    IF \E q \in Prefixes(p) : IsFile(fs, q)
    THEN Res("Io", fs)
    ELSE Res("Ok", FS(fs.dirs \cup Prefixes(p), fs.files))

\* fs::write: creates or truncates the file, then writes all of content
fs_write(fs, p, content) ==
    IF IsDir(fs, p) \/ ~IsDir(fs, Parent(p))
    THEN Res("Io", fs)
    ELSE Res("Ok", FS(fs.dirs, [q \in DOMAIN fs.files \cup {p} |->
                                  IF q = p THEN content ELSE fs.files[q]]))

\* the ? operator: run F on the result's file system unless it is an error
Then(r, F(_)) == IF IsOk(r) THEN F(r.fs) ELSE r

----------------------------------------------------------------------------
(* storage.rs *)

repo_path(repo_hash) == <<repo_hash>>
objects_path(repo_hash) == repo_path(repo_hash) \o <<"objects">>
refs_path(repo_hash) == repo_path(repo_hash) \o <<"refs">>
head_path(repo_hash) == repo_path(repo_hash) \o <<"HEAD">>

DefaultHead == "ref: refs/heads/main\n"

\* a slip: fs::create_dir for the repository, which fails when it exists
init_repo_create_dir(fs, repo_hash) ==
    LET s1(f) == IF Exists(f, repo_path(repo_hash)) THEN Res("Io", f)
                 ELSE create_dir_all(f, repo_path(repo_hash))
        s2(f) == create_dir_all(f, objects_path(repo_hash))
        s3(f) == create_dir_all(f, refs_path(repo_hash) \o <<"heads">>)
        s4(f) == create_dir_all(f, refs_path(repo_hash) \o <<"tags">>)
        s5(f) == fs_write(f, head_path(repo_hash), DefaultHead)
    IN  Then(Then(Then(Then(s1(fs), s2), s3), s4), s5)

init_repo(fs, repo_hash) ==
    LET s1(f) == create_dir_all(f, repo_path(repo_hash))
        s2(f) == create_dir_all(f, objects_path(repo_hash))
        s3(f) == create_dir_all(f, refs_path(repo_hash) \o <<"heads">>)
        s4(f) == create_dir_all(f, refs_path(repo_hash) \o <<"tags">>)
        s5(f) == fs_write(f, head_path(repo_hash), DefaultHead)
    IN  Then(Then(Then(Then(s1(fs), s2), s3), s4), s5)

\* the fan-out split of an object id (storage.rs:55-56, 74-75)
Subdir(object_id) == SubSeq(object_id, 1, 2)
\* a slip: the file name starts one byte early, &object_id[1..]
FilenameFromSecond(object_id) == SubSeq(object_id, 2, Len(object_id))
Filename(object_id) == SubSeq(object_id, 3, Len(object_id))
\* PathBuf::join: joining the empty name names the directory itself
Join(p, name) == IF name = "" THEN p ELSE Append(p, name)
object_path(repo_hash, object_id) ==
    Join(Append(objects_path(repo_hash), Subdir(object_id)), Filename(object_id))

\* a slip: an object that exists is kept, not overwritten
store_object_keep(fs, repo_hash, object_id, data, io) ==
    LET s1 == IF ~Exists(fs, objects_path(repo_hash))
              THEN init_repo(fs, repo_hash) ELSE Res("Ok", fs)
        s2(f) == create_dir_all(f, objects_path(repo_hash) \o <<Subdir(object_id)>>)
        s3(f) == IF ~io THEN Res("Io", f)
                 ELSE IF IsFile(f, object_path(repo_hash, object_id)) THEN Res("Ok", f)
                 ELSE fs_write(f, object_path(repo_hash, object_id), Compress(data))
    IN  Then(Then(s1, s2), s3)

\* io: whether the operating system lets the final write go through
store_object(fs, repo_hash, object_id, data, io) ==
    LET s1 == IF ~Exists(fs, objects_path(repo_hash))
              THEN init_repo(fs, repo_hash) ELSE Res("Ok", fs)
        s2(f) == IF Len(object_id) < 2 THEN Res("Panic", f)
                 ELSE create_dir_all(f, objects_path(repo_hash) \o <<Subdir(object_id)>>)
        s3(f) == IF io THEN fs_write(f, object_path(repo_hash, object_id), Compress(data))
                 ELSE Res("Io", f)
    IN  Then(Then(s1, s2), s3)

\* fs::write is File::create then write_all: the outcome in which the file
\* was created or truncated and the bytes could not be written
fs_write_torn(fs, p) ==
    IF IsDir(fs, p) \/ ~IsDir(fs, Parent(p))
    THEN Res("Io", fs)
    ELSE Res("Io", FS(fs.dirs, [q \in DOMAIN fs.files \cup {p} |->
                                  IF q = p THEN "" ELSE fs.files[q]]))

\* store_object whose final fs::write fails after File::create
store_object_torn(fs, repo_hash, object_id, data) ==
    LET s1 == IF ~Exists(fs, objects_path(repo_hash))
              THEN init_repo(fs, repo_hash) ELSE Res("Ok", fs)
        s2(f) == IF Len(object_id) < 2 THEN Res("Panic", f)
                 ELSE create_dir_all(f, objects_path(repo_hash) \o <<Subdir(object_id)>>)
        s3(f) == fs_write_torn(f, object_path(repo_hash, object_id))
    IN  Then(Then(s1, s2), s3)

\* [st, data]; the slice &object_id[..2] panics on an id shorter than two
\* bytes
read_object(fs, repo_hash, object_id) ==
    LET p == object_path(repo_hash, object_id)
    IN  IF Len(object_id) < 2 THEN [st |-> "Panic", data |-> ""]
        ELSE IF ~Exists(fs, p) THEN [st |-> "NotFound", data |-> ""]
        ELSE IF IsDir(fs, p) THEN [st |-> "Io", data |-> ""]
        ELSE LET d == Decompress(fs.files[p])
             IN  IF d.ok THEN [st |-> "Ok", data |-> d.data]
                 ELSE [st |-> "Io", data |-> ""]

update_ref(fs, repo_hash, ref_name, commit_id) ==
    LET ref_path == repo_path(repo_hash) \o ref_name
        s1 == create_dir_all(fs, Parent(ref_path))
        s2(f) == fs_write(f, ref_path, commit_id \o "\n")
    IN  Then(s1, s2)

\* [st, val]
read_ref(fs, repo_hash, ref_name) ==
    LET ref_path == repo_path(repo_hash) \o ref_name
    IN  IF ~Exists(fs, ref_path) THEN [st |-> "NotFound", val |-> ""]
        ELSE IF IsDir(fs, ref_path) THEN [st |-> "Io", val |-> ""]
        ELSE [st |-> "Ok", val |-> Trim(fs.files[ref_path])]


RECURSIVE ListSubdirs(_, _)
ListSubdirs(fs, subs) ==
    IF subs = <<>> THEN <<>>
    ELSE SetToSeq(Children(fs, Head(subs))) \o ListSubdirs(fs, Tail(subs))

\* [st, objects]; read_dir order is the order SetToSeq picks
list_objects(fs, repo_hash) ==
    LET objects_dir == objects_path(repo_hash)
        subs == SetToSeq({q \in Children(fs, objects_dir) : IsDir(fs, q)})
        entries == ListSubdirs(fs, subs)
    IN  IF ~Exists(fs, objects_dir) THEN [st |-> "Ok", objects |-> <<>>]
        ELSE IF ~IsDir(fs, objects_dir) THEN [st |-> "Io", objects |-> <<>>]
        ELSE [st |-> "Ok",
              objects |-> [i \in 1..Len(entries) |->
                  entries[i][Len(entries[i]) - 1] \o entries[i][Len(entries[i])]]]

\* a slip: each object goes in front of what was packed so far
RECURSIVE PackPrepend(_, _, _, _, _)
PackPrepend(fs, repo_hash, objects, i, pack_data) ==
    IF i > Len(objects) THEN [st |-> "Ok", data |-> pack_data]
    ELSE LET r == read_object(fs, repo_hash, objects[i])
         IN  IF r.st # "Ok" THEN [st |-> r.st, data |-> ""]
             ELSE PackPrepend(fs, repo_hash, objects, i + 1, r.data \o pack_data)

\* the for loop of create_pack (storage.rs:221-224) from object i on
RECURSIVE PackObjects(_, _, _, _, _)
PackObjects(fs, repo_hash, objects, i, pack_data) ==
    IF i > Len(objects) THEN [st |-> "Ok", data |-> pack_data]
    ELSE LET r == read_object(fs, repo_hash, objects[i])
         IN  IF r.st # "Ok" THEN [st |-> r.st, data |-> ""]
             ELSE PackObjects(fs, repo_hash, objects, i + 1, pack_data \o r.data)

\* [st, data]
create_pack(fs, repo_hash) ==
    LET l == list_objects(fs, repo_hash)
    IN  IF l.st # "Ok" THEN [st |-> l.st, data |-> ""]
        ELSE PackObjects(fs, repo_hash, l.objects, 1, "")

\* the paths at or below p
Under(S, p) == {q \in S : Len(q) >= Len(p) /\ SubSeq(q, 1, Len(p)) = p}

\* fs::remove_dir_all: fails on a path that is not a directory
remove_dir_all(fs, p) ==
    IF ~IsDir(fs, p) THEN Res("Io", fs)
    ELSE LET keep == DOMAIN fs.files \ Under(DOMAIN fs.files, p)
         IN  Res("Ok", FS(fs.dirs \ Under(fs.dirs, p), [q \in keep |-> fs.files[q]]))

\* a slip: only the object store of the repository is removed
delete_repo_objects(fs, repo_hash) ==
    IF Exists(fs, objects_path(repo_hash))
    THEN remove_dir_all(fs, objects_path(repo_hash))
    ELSE Res("Ok", fs)

delete_repo(fs, repo_hash) ==
    IF Exists(fs, repo_path(repo_hash))
    THEN remove_dir_all(fs, repo_path(repo_hash))
    ELSE Res("Ok", fs)

list_hosted_repos(fs) ==
    LET ds == SetToSeq({q \in Children(fs, <<>>) : IsDir(fs, q)})
    IN  [i \in 1..Len(ds) |-> ds[i][1]]

get_repo_size(fs, repo_hash) ==
    LET fl == SetToSeq(Below(fs, repo_path(repo_hash)))
    IN  SumSeq([i \in 1..Len(fl) |-> Len(fs.files[fl[i]])])

get_storage_usage(fs) ==
    LET rs == list_hosted_repos(fs)
    IN  SumSeq([i \in 1..Len(rs) |-> get_repo_size(fs, rs[i])])

\* a slip: readable is taken for valid
verify_object_readable(fs, repo_hash, object_id) ==
    LET r == read_object(fs, repo_hash, object_id)
    IN  [st |-> r.st, valid |-> r.st = "Ok"]

\* [st, valid]
verify_object(fs, repo_hash, object_id) ==
    LET r == read_object(fs, repo_hash, object_id)
    IN  IF r.st = "Ok" THEN [st |-> "Ok", valid |-> r.data # ""]
        ELSE [st |-> r.st, valid |-> FALSE]

----------------------------------------------------------------------------
(* dht.rs: the routing table, repo_hash -> Vec of node ids *)

\* DHT::new: an empty routing table
NewDHT == [r \in {} |-> <<>>]

\* a slip: the entry is replaced by the announcing node (insert for push)
announce_replace(rt, repo_hash, node_id) ==
    (repo_hash :> <<node_id>>) @@ rt

announce_content(rt, repo_hash, node_id) ==
    IF repo_hash \in DOMAIN rt
    THEN [rt EXCEPT ![repo_hash] = Append(@, node_id)]
    ELSE (repo_hash :> <<node_id>>) @@ rt

query_content(rt, repo_hash) ==
    IF repo_hash \in DOMAIN rt THEN rt[repo_hash] ELSE <<>>

\* a slip: only the first occurrence of node_id is removed
unannounce_first(rt, repo_hash, node_id) ==
    IF repo_hash \in DOMAIN rt /\ Contains(rt[repo_hash], node_id)
    THEN LET s == rt[repo_hash]
             i == CHOOSE j \in 1..Len(s) :
                      s[j] = node_id /\ \A k \in 1..(j - 1) : s[k] # node_id
         IN  [rt EXCEPT ![repo_hash] = SubSeq(s, 1, i - 1) \o SubSeq(s, i + 1, Len(s))]
    ELSE rt

unannounce_content(rt, repo_hash, node_id) ==
    IF repo_hash \in DOMAIN rt
    THEN [rt EXCEPT ![repo_hash] = SelectSeq(@, LAMBDA n : n # node_id)]
    ELSE rt

\* the for loop of announcement_loop (dht.rs:58-61) over the hosted snapshot
RECURSIVE AnnounceAll(_, _, _)
AnnounceAll(rt, repos, node_id) ==
    IF repos = <<>> THEN rt
    ELSE AnnounceAll(announce_content(rt, Head(repos), node_id), Tail(repos), node_id)

----------------------------------------------------------------------------
(* proxy.rs: the outbound client.  tor_client is TRUE for Some(..). *)

from_config(cfg) == [enabled |-> cfg.enable_proxy, tor_client |-> FALSE]

init_tor_client(proxy) ==
    IF proxy.enabled THEN [proxy EXCEPT !.tor_client = TRUE] ELSE proxy

\* TRUE for Ok(client)
build_client(proxy) == proxy.enabled /\ proxy.tor_client

----------------------------------------------------------------------------
(* replication.rs: arithmetic and responses *)

\* u64 arithmetic on a reduced width
TwoToW == 256
AsU64(n) == n % TwoToW
saturating_sub(a, b) == IF a >= b THEN a - b ELSE 0

SeqsUpTo(S, n) == UNION {[1..k -> S] : k \in 0..n}

\* what a request can come back with: a transport or decoding error, a
\* non-success status, or a body
Resp(kind, body) == [kind |-> kind, body |-> body]
Failed(none) == {Resp("err", none), Resp("status", none)}
Bodies(S) == {Resp("ok", b) : b \in S}

PeerIds == {"peer0001", "peer0002"}
Sizes == {-1, 0, 12}
SweepIds == {"aa11bb22"}
SweepDatas == {"", "hi"}

----------------------------------------------------------------------------
(* Node state (main.rs:91-108, 232-246) *)

FSnow == FS(dirs, files)

\* an id shorter than the eight bytes the log lines slice
ShortIds == {"aa11"}
Keys == RepoHashes \X (ObjectIds \cup ShortIds)

NodeStats0 ==
    [total_requests |-> 0, bytes_served |-> 0, repos_hosted |-> 0,
     uptime_seconds |-> 0, replication_count |-> 0, failed_requests |-> 0]

Capacity == 20

Configs ==
    [node_id : {"node0000"}, storage_capacity : {Capacity},
     auto_replicate : {TRUE}, enable_dht : {TRUE}, enable_proxy : {TRUE}]

NoBatch == [pc |-> "idle", again |-> FALSE]

\* the threads that may be inside store_object at the same time
WriterIds == {1, 2}
NoWriter == [pc |-> "idle", repo |-> "", id |-> "", data |-> "", st |-> "none"]
\* the RwLocks of NodeState (main.rs:232-238) and the tasks that take them
LockNames == {"stats", "hosted_repos", "dht"}
Tasks == {"get1", "get2", "status", "monitor", "store", "announce"}
MaxWorkers == 2    \* worker threads of the runtime
Workers == 1..MaxWorkers
\* a task: where it is, whether it is running on worker w, parked waiting
\* for a lock, woken ("ready") or blocking its worker, and its locals
NoTask == [pc |-> 1, on |-> "new", w |-> 0, loc |-> <<>>]
NoLocks == [held |-> [l \in LockNames |-> {}],
            queue |-> [l \in LockNames |-> <<>>],
            tk |-> [t \in Tasks |-> NoTask]]

\* heartbeat_loop's uptime, whether a verification task is spawned and not
\* yet run, and what the last verification did
NoVerify == [st |-> "none", repos |-> 0, checked |-> 0, total |-> 0, visited |-> 0,
             corrupted |-> 0]
\* what the capacity monitor last signalled, and the usage it read
NoMonitor == [signal |-> "unset", used |-> 0]
NoHealth == [uptime |-> 0, ticks |-> 0, spawns |-> 0, spawned |-> FALSE,
             verify |-> NoVerify, monitor |-> NoMonitor]
\* the sweep's locals, and what it has done to the current candidate
NoSweep ==
    [pc |-> "idle", runs |-> 0, used |-> 0, avail |-> 0, hosted |-> <<>>,
     todo |-> <<>>, cur |-> "", size |-> 0, peers |-> <<>>, pi |-> 0,
     objs |-> <<>>, result |-> "none", announced |-> "none", pre |-> None,
     replicated |-> [r \in RepoHashes |-> 0]]

\* a slip: the push without the contains test
PushAlways(repos, repo_hash) == Append(repos, repo_hash)

\* Vec::contains then Vec::push (api.rs:168-171, replication.rs:144-147)
PushUnique(repos, repo_hash) ==
    IF Contains(repos, repo_hash) THEN repos ELSE Append(repos, repo_hash)

\* start_node on an empty storage directory
\* the init handler called repeatedly on repositories in every store state
\* with ref names that land on the repository's own layout
LayoutRefNames == RefNames \cup {<<"objects">>, <<"HEAD", "x">>}

\* ref names the ref-update endpoint takes from the request body as they
\* come (api.rs:228-238): also one that spells the path of an object
EndpointRefNames == RefNames \cup {<<"objects", "aa", "11bb22">>}

\* the refs whose updates are remembered
RefKeys == RepoHashes \X LayoutRefNames

\* the state start_node builds on an empty storage path
Boot(cfgs) ==
    /\ config \in cfgs
    /\ dirs = {<<>>}
    /\ files = <<>>
    /\ hosted_repos = list_hosted_repos(FS({<<>>}, <<>>))
    /\ stats = NodeStats0
    /\ dht = NewDHT
    /\ written = [k \in Keys |-> None]
    /\ overwrote = FALSE
    /\ initCalls = [r \in RepoHashes |-> 0]
    /\ lastRef = [k \in RefKeys |-> None]
    /\ health = NoHealth
    /\ batch = NoBatch
    /\ sweep = NoSweep
    /\ writers = [w \in WriterIds |-> NoWriter]
    /\ locks = NoLocks
    /\ reqLog = <<>>

Init == Boot(Configs)

\* the same with auto_replicate set either way in the configuration file
AnyConfigs ==
    [node_id : {"node0000"}, storage_capacity : {Capacity},
     auto_replicate : BOOLEAN, enable_dht : {TRUE}, enable_proxy : {TRUE}]

InitAny == Boot(AnyConfigs)

SetFS(fs) == dirs' = fs.dirs /\ files' = fs.files

\* history of store_object: the bytes of the latest successful call per key,
\* and whether some call replaced bytes that differ from its own
Written(w, repo_hash, object_id, data, res) ==
    IF IsOk(res) THEN [w EXCEPT ![<<repo_hash, object_id>>] = Some(data)] ELSE w
Overwrote(repo_hash, object_id, data, res) ==
    \/ overwrote
    \/ /\ IsOk(res)
       /\ written[<<repo_hash, object_id>>] \notin {None, Some(data)}

----------------------------------------------------------------------------
(* api.rs: the handlers that write to the store *)

\* POST /repos/{hash}/init (api.rs:254-270)
init_repo_handler(repo_hash) ==
    LET res == init_repo(FSnow, repo_hash)
    IN  /\ SetFS(res.fs)
        /\ hosted_repos' = IF IsOk(res) THEN PushUnique(hosted_repos, repo_hash)
                           ELSE hosted_repos
        /\ UNCHANGED <<config, stats, dht, written, overwrote, batch, sweep, reqLog,
                       lastRef, health, writers, locks>>

ApiInitRepo(repo_hash) ==
    /\ init_repo_handler(repo_hash)
    /\ UNCHANGED initCalls

\* the same handler, its successful calls counted (up to two)
CountedInitRepo(repo_hash) ==
    /\ init_repo_handler(repo_hash)
    /\ initCalls' = IF IsOk(init_repo(FSnow, repo_hash)) /\ initCalls[repo_hash] < 2
                    THEN [initCalls EXCEPT ![repo_hash] = @ + 1] ELSE initCalls

\* POST /repos/{hash}/objects (api.rs:152-178)
ApiStoreObject(repo_hash, object_id, payload, io) ==
    LET dec == Base64Decode(payload)
        res == store_object(FSnow, repo_hash, object_id, dec.data, io)
    IN  /\ dec.ok
        /\ SetFS(res.fs)
        /\ hosted_repos' = IF IsOk(res) THEN PushUnique(hosted_repos, repo_hash)
                           ELSE hosted_repos
        /\ written' = Written(written, repo_hash, object_id, dec.data, res)
        /\ overwrote' = Overwrote(repo_hash, object_id, dec.data, res)
        /\ UNCHANGED <<config, stats, dht, initCalls, batch, sweep, reqLog, lastRef,
                       health, writers, locks>>

\* the same request with a payload that is not base64: 400 before anything
\* is touched (api.rs:160-162)
ApiStoreObjectRejected(repo_hash, object_id, payload) ==
    /\ ~Base64Decode(payload).ok
    /\ UNCHANGED vars

\* the same request when the write fails after the file was opened
\* (api.rs:164-166): 500, the hosted list is not reached
ApiStoreObjectTorn(repo_hash, object_id, payload) ==
    LET dec == Base64Decode(payload)
        res == store_object_torn(FSnow, repo_hash, object_id, dec.data)
    IN  /\ dec.ok
        /\ SetFS(res.fs)
        /\ UNCHANGED <<config, hosted_repos, stats, dht, written, overwrote,
                       initCalls, batch, sweep, reqLog, lastRef, health, writers,
                       locks>>

\* POST /repos/{hash}/refs (api.rs:228-238)
ApiUpdateRef(repo_hash, ref_name, commit_id) ==
    LET res == update_ref(FSnow, repo_hash, ref_name, commit_id)
    IN  /\ SetFS(res.fs)
        /\ lastRef' = IF IsOk(res)
                      THEN [lastRef EXCEPT ![<<repo_hash, ref_name>>] = Some(commit_id)]
                      ELSE lastRef
        /\ UNCHANGED <<config, hosted_repos, stats, dht, written, overwrote,
                       initCalls, batch, sweep, reqLog, health, writers, locks>>

\* store requests that succeed and that fail in each way
StoreFailNext ==
    \/ \E id \in {"aa11bb22", "aa22bb11"}, p \in {"", "aGk="}, io \in BOOLEAN :
          ApiStoreObject("repo0001", id, p, io)
    \/ \E id \in {"aa11bb22", "aa22bb11"} :
          ApiStoreObjectRejected("repo0001", id, "!!")
    \/ \E id \in {"aa11bb22", "aa22bb11"} :
          ApiStoreObjectTorn("repo0001", id, "aGk=")
    \/ ApiUpdateRef("repo0001", <<"refs", "heads", "main">>, "c0ffee01")
    \/ ApiInitRepo("repo0002")

SpecStoreFail == Init /\ [][StoreFailNext]_vars

\* the keys the store handler is exercised on
StoreKeys == ({"repo0001"} \X ObjectIds) \cup {<<"repo0002", "aa11bb22">>}

Next ==
    \/ \E r \in RepoHashes : ApiInitRepo(r)
    \/ \E k \in StoreKeys, p \in Payloads, io \in BOOLEAN :
          ApiStoreObject(k[1], k[2], p, io)
    \/ \E r \in RepoHashes, n \in RefNames, c \in Commits : ApiUpdateRef(r, n, c)

Spec == Init /\ [][Next]_vars


InitNext ==
    \/ \E r \in RepoHashes : CountedInitRepo(r)
    \/ \E r \in RepoHashes, p \in Payloads :
          ApiStoreObject(r, "aa11bb22", p, TRUE)
    \/ \E r \in RepoHashes, n \in LayoutRefNames, c \in Commits :
          ApiUpdateRef(r, n, c)

SpecInit == Init /\ [][InitNext]_vars

\* the handlers that write refs: a repository comes into being through
\* update_ref, init_repo or the first stored object
RefsNext ==
    \/ \E r \in RepoHashes : ApiInitRepo(r)
    \/ \E r \in RepoHashes, p \in {"aGk="}, io \in BOOLEAN :
          ApiStoreObject(r, "aa11bb22", p, io)
    \/ \E r \in RepoHashes, n \in RefNames, c \in RefCommits :
          ApiUpdateRef(r, n, c)

SpecRefs == Init /\ [][RefsNext]_vars

----------------------------------------------------------------------------
(* The routing table in the running node *)

\* one tick of announcement_loop (dht.rs:48-65)
AnnouncementTick ==
    /\ config.enable_dht
    /\ \A r \in SeqToSet(hosted_repos) : Len(query_content(dht, r)) < MaxAnnounce
    /\ dht' = AnnounceAll(dht, hosted_repos, config.node_id)
    /\ UNCHANGED <<config, dirs, files, hosted_repos, stats, written, overwrote,
                   initCalls, batch, sweep, reqLog, lastRef, health,
                   writers, locks>>

\* DHT::announce_content called by a holder of the table
DhtAnnounce(repo_hash, node_id) ==
    /\ Len(query_content(dht, repo_hash)) < MaxAnnounce
    /\ dht' = announce_content(dht, repo_hash, node_id)
    /\ UNCHANGED <<config, dirs, files, hosted_repos, stats, written, overwrote,
                   initCalls, batch, sweep, reqLog, lastRef, health,
                   writers, locks>>

\* DHT::unannounce_content called by a holder of the table
DhtUnannounce(repo_hash, node_id) ==
    /\ dht' = unannounce_content(dht, repo_hash, node_id)
    /\ UNCHANGED <<config, dirs, files, hosted_repos, stats, written, overwrote,
                   initCalls, batch, sweep, reqLog, lastRef, health,
                   writers, locks>>

DhtNext ==
    \/ \E r \in RepoHashes : ApiInitRepo(r)
    \/ AnnouncementTick
    \/ \E r \in RepoHashes, n \in NodeIds : DhtAnnounce(r, n)
    \/ \E r \in RepoHashes, n \in NodeIds : DhtUnannounce(r, n)

SpecDht == Init /\ [][DhtNext]_vars

----------------------------------------------------------------------------
(* api.rs: batch store, one step per item of the request *)

BatchIds == {"aa11bb22", "bb11aa22"}

\* the request arrives: an ordered list of n objects for repo_hash; a first
\* request, and a second one on the store the first has left
BatchBegin(repo_hash, n) ==
    /\ batch.pc = "idle" \/ (batch.pc = "done" /\ ~batch.again)
    /\ batch' = [pc |-> "run", again |-> batch.pc = "done",
                 repo |-> repo_hash, total |-> n, left |-> n,
                 uploaded |-> 0, failed |-> <<>>, afterFail |-> FALSE]
    /\ UNCHANGED <<config, dirs, files, hosted_repos, stats, dht, written,
                   overwrote, initCalls, sweep, reqLog, lastRef, health,
                   writers, locks>>

\* a slip: the first failing item ends the loop, as a ? would
BatchItemAbort(object_id, payload, io) ==
    LET dec == Base64Decode(payload)
        res == IF dec.ok
               THEN store_object(FSnow, batch.repo, object_id, dec.data, io)
               ELSE Res("Io", FSnow)
    IN  /\ batch.pc = "run" /\ batch.left > 0
        /\ SetFS(res.fs)
        /\ written' = Written(written, batch.repo, object_id, dec.data, res)
        /\ overwrote' = Overwrote(batch.repo, object_id, dec.data, res)
        /\ batch' = IF IsOk(res)
                    THEN [batch EXCEPT !.left = @ - 1, !.uploaded = @ + 1,
                                       !.afterFail = @ \/ batch.failed # <<>>]
                    ELSE [batch EXCEPT !.left = 0,
                                       !.failed = Append(@, object_id)]
        /\ UNCHANGED <<config, hosted_repos, stats, dht, initCalls, sweep, reqLog,
                       lastRef, health, writers, locks>>

\* the body of the for loop for the next object (api.rs:190-203)
BatchItem(object_id, payload, io) ==
    LET dec == Base64Decode(payload)
        res == IF dec.ok
               THEN store_object(FSnow, batch.repo, object_id, dec.data, io)
               ELSE Res("Io", FSnow)
    IN  /\ batch.pc = "run" /\ batch.left > 0
        /\ SetFS(res.fs)
        /\ written' = Written(written, batch.repo, object_id, dec.data, res)
        /\ overwrote' = Overwrote(batch.repo, object_id, dec.data, res)
        /\ batch' = IF IsOk(res)
                    THEN [batch EXCEPT !.left = @ - 1, !.uploaded = @ + 1,
                                       !.afterFail = @ \/ batch.failed # <<>>]
                    ELSE [batch EXCEPT !.left = @ - 1,
                                       !.failed = Append(@, object_id)]
        /\ UNCHANGED <<config, hosted_repos, stats, dht, initCalls, sweep, reqLog,
                       lastRef, health, writers, locks>>

\* after the loop: the hosted list, then the response (api.rs:205-212)
BatchEnd ==
    /\ batch.pc = "run" /\ batch.left = 0
    /\ hosted_repos' = PushUnique(hosted_repos, batch.repo)
    /\ batch' = [batch EXCEPT !.pc = "done"]
    /\ UNCHANGED <<config, dirs, files, stats, dht, written, overwrote,
                   initCalls, sweep, reqLog, lastRef, health, writers, locks>>

BatchNext ==
    \/ \E r \in RepoHashes, n \in 0..MaxBatch : BatchBegin(r, n)
    \/ \E id \in BatchIds, p \in Payloads, io \in BOOLEAN : BatchItem(id, p, io)
    \/ BatchEnd

SpecBatch == Init /\ [][BatchNext]_vars

----------------------------------------------------------------------------
(* replication.rs: one sweep, one step per await point *)

Others == <<config, dht, initCalls, lastRef, health, batch, writers, locks>>
Store == <<dirs, files, written, overwrote>>

\* &s[..8]: panics on a string shorter than eight bytes
SliceOk(s) == Len(s) >= 8

\* a panic in the spawned task: it ends where it is, locals as they were
Panicked(s) == [s EXCEPT !.pc = "panicked"]

ItemFailed(s) == [s EXCEPT !.pc = "cand", !.todo = Tail(@), !.result = "Err"]

\* the Err arm of replicate_repo's loop (replication.rs:150-153): the warning
\* slices the peer's id, then the next peer, or bail
AttemptFailed(s) ==
    IF ~SliceOk(s.peers[s.pi]) THEN Panicked(s)
    ELSE IF s.pi < Len(s.peers)
    THEN [s EXCEPT !.pc = "peer", !.pi = @ + 1, !.objs = <<>>]
    ELSE ItemFailed(s)

NextCandidate(s) ==
    [s EXCEPT !.pc = "cand", !.todo = Tail(@), !.result = "none", !.pre = None,
              !.announced = "none",
              !.cur = "", !.size = 0, !.peers = <<>>, !.pi = 0, !.objs = <<>>]

LogLast(log, list, res) ==
    [log EXCEPT ![Len(log)] = [peer |-> @.peer, list |-> list, res |-> res]]

\* a slip: the timer starts a sweep whatever auto_replicate says
SweepTickAlways(tor) ==
    LET proxy0 == from_config(config)
        proxy == IF tor THEN init_tor_client(proxy0) ELSE proxy0
    IN  /\ sweep.pc = "idle"
        /\ sweep.runs < MaxSweeps
        /\ sweep' = [NoSweep EXCEPT
                        !.runs = sweep.runs + 1,
                        !.pc = IF build_client(proxy) THEN "registry" ELSE "idle"]
        /\ reqLog' = <<>>
        /\ UNCHANGED <<Others, Store, hosted_repos, stats>>

\* a slip: every tick starts a sweep of its own, as heartbeat_loop does for
\* the verification, whether or not the previous one has returned
SweepTickSpawn(tor) ==
    LET proxy0 == from_config(config)
        proxy == IF tor THEN init_tor_client(proxy0) ELSE proxy0
    IN  /\ sweep.runs < MaxSweeps
        /\ IF ~config.auto_replicate
           THEN /\ sweep' = [sweep EXCEPT !.runs = @ + 1]
                /\ UNCHANGED reqLog
           ELSE /\ sweep' = [NoSweep EXCEPT
                               !.runs = sweep.runs + 1,
                               !.pc = IF build_client(proxy) THEN "registry"
                                      ELSE "idle"]
                /\ reqLog' = <<>>
        /\ UNCHANGED <<Others, Store, hosted_repos, stats>>

\* the timer fires (replication.rs:11-21): the tick is skipped when
\* auto_replicate is off; tor says whether the ProxyConfig had its Tor client
\* initialised before build_client (check_and_replicate itself never does)
SweepTick(tor) ==
    LET proxy0 == from_config(config)
        proxy == IF tor THEN init_tor_client(proxy0) ELSE proxy0
    IN  /\ sweep.pc = "idle"
        /\ sweep.runs < MaxSweeps
        /\ IF ~config.auto_replicate
           THEN /\ sweep' = [sweep EXCEPT !.runs = @ + 1]
                /\ UNCHANGED reqLog
           ELSE /\ sweep' = [NoSweep EXCEPT
                               !.runs = sweep.runs + 1,
                               !.pc = IF build_client(proxy) THEN "registry"
                                      ELSE "idle"]
                /\ reqLog' = <<>>
        /\ UNCHANGED <<Others, Store, hosted_repos, stats>>

\* a slip: the status of the response is not looked at
RegistryResponseAnyStatus(resp) ==
    /\ sweep.pc = "registry"
    /\ sweep' = IF resp.kind = "err"
                THEN [sweep EXCEPT !.pc = "idle", !.result = "NoList"]
                ELSE LET storage_used == get_storage_usage(FSnow)
                     IN  [sweep EXCEPT
                            !.pc = "cand",
                            !.used = storage_used,
                            !.avail = saturating_sub(config.storage_capacity,
                                                     storage_used),
                            !.hosted = hosted_repos,
                            !.todo = resp.body]
    /\ UNCHANGED <<Others, Store, hosted_repos, stats, reqLog>>

\* the unhealthy list comes back (replication.rs:31-54)
RegistryResponse(resp) ==
    /\ sweep.pc = "registry"
    /\ sweep' = IF resp.kind # "ok" \/ resp.body = <<>>
                THEN [sweep EXCEPT !.pc = "idle",
                        !.result = IF resp.kind = "ok" THEN "Empty" ELSE "NoList"]
                ELSE LET storage_used == get_storage_usage(FSnow)
                     IN  [sweep EXCEPT
                            !.pc = "cand",
                            !.used = storage_used,
                            !.avail = saturating_sub(config.storage_capacity,
                                                     storage_used),
                            !.hosted = hosted_repos,
                            !.todo = resp.body]
    /\ UNCHANGED <<Others, Store, hosted_repos, stats, reqLog>>

\* a candidate of the hosted snapshot (replication.rs:57-59)
SweepSkipHosted ==
    /\ sweep.pc = "cand" /\ sweep.todo # <<>>
    /\ Contains(sweep.hosted, Head(sweep.todo))
    /\ sweep' = NextCandidate(sweep)
    /\ reqLog' = <<>>
    /\ UNCHANGED <<Others, Store, hosted_repos, stats>>

\* the size of the next candidate comes back (replication.rs:61-66, 224-243);
\* each way on logs &repo_hash[..8] (replication.rs:64, 92, 131)
SizeResponse(resp) ==
    /\ sweep.pc = "cand" /\ sweep.todo # <<>>
    /\ ~Contains(sweep.hosted, Head(sweep.todo))
    /\ sweep' = IF ~SliceOk(Head(sweep.todo))
                THEN Panicked(sweep)
                ELSE IF resp.kind # "ok" \/ AsU64(resp.body) > sweep.avail
                THEN NextCandidate(sweep)
                ELSE [NextCandidate(sweep) EXCEPT
                        !.pc = "nodes",
                        !.todo = sweep.todo,
                        !.cur = Head(sweep.todo),
                        !.size = AsU64(resp.body),
                        !.pre = Some([dirs |-> dirs, files |-> files,
                                      hosted |-> hosted_repos, stats |-> stats])]
    /\ reqLog' = <<>>
    /\ UNCHANGED <<Others, Store, hosted_repos, stats>>

\* the peers of the candidate come back (replication.rs:133-137, 245-279)
NodesResponse(resp) ==
    /\ sweep.pc = "nodes"
    /\ sweep' = IF resp.kind # "ok" \/ resp.body = <<>>
                THEN ItemFailed(sweep)
                ELSE [sweep EXCEPT !.pc = "peer", !.peers = resp.body, !.pi = 1]
    /\ UNCHANGED <<Others, Store, hosted_repos, stats, reqLog>>

\* fetch_repo_from_peer up to the listing request (replication.rs:166-173)
PeerAttemptStart ==
    LET res == init_repo(FSnow, sweep.cur)
    IN  /\ sweep.pc = "peer"
        /\ SetFS(res.fs)
        /\ IF IsOk(res)
           THEN /\ sweep' = [sweep EXCEPT !.pc = "list"]
                /\ reqLog' = Append(reqLog, [peer |-> sweep.peers[sweep.pi],
                                             list |-> "sent", res |-> "run"])
           ELSE /\ sweep' = AttemptFailed(sweep)
                /\ reqLog' = reqLog
        /\ UNCHANGED <<Others, written, overwrote, hosted_repos, stats>>

\* the peer's listing comes back (replication.rs:173-186)
ListResponse(resp) ==
    /\ sweep.pc = "list"
    /\ IF resp.kind # "ok"
       THEN /\ sweep' = AttemptFailed(sweep)
            /\ reqLog' = LogLast(reqLog, "fail", "Err")
       ELSE /\ sweep' = [sweep EXCEPT !.pc = "obj", !.objs = resp.body]
            /\ reqLog' = LogLast(reqLog, "ok", "run")
    /\ UNCHANGED <<Others, Store, hosted_repos, stats>>

\* one object of the listing comes back (replication.rs:194-218); the kind
\* "body" is a success status whose bytes cannot be read
ObjectResponse(resp, io) ==
    LET object_id == Head(sweep.objs)
        res == IF resp.kind = "ok"
               THEN store_object(FSnow, sweep.cur, object_id, resp.body, io)
               ELSE Res(IF resp.kind = "body" THEN "Io" ELSE "Ok", FSnow)
    IN  /\ sweep.pc = "obj" /\ sweep.objs # <<>>
        /\ SetFS(res.fs)
        /\ written' = IF resp.kind = "ok"
                      THEN Written(written, sweep.cur, object_id, resp.body, res)
                      ELSE written
        /\ overwrote' = IF resp.kind = "ok"
                        THEN Overwrote(sweep.cur, object_id, resp.body, res)
                        ELSE overwrote
        /\ IF IsOk(res)
           THEN /\ sweep' = [sweep EXCEPT !.objs = Tail(@)]
                /\ reqLog' = reqLog
           ELSE /\ sweep' = AttemptFailed(sweep)
                /\ reqLog' = LogLast(reqLog, "ok", "Err")
        /\ UNCHANGED <<Others, hosted_repos, stats>>

\* a slip: replicate_repo returns Ok without the push to the hosted list
AttemptDoneNoPush ==
    /\ sweep.pc = "obj" /\ sweep.objs = <<>>
    /\ IF ~SliceOk(sweep.peers[sweep.pi])
       THEN /\ sweep' = Panicked(sweep)
            /\ UNCHANGED <<hosted_repos, reqLog>>
       ELSE /\ hosted_repos' = hosted_repos
            /\ sweep' = [sweep EXCEPT !.pc = "stats", !.result = "Ok",
                                      !.replicated[sweep.cur] = sweep.size]
            /\ reqLog' = LogLast(reqLog, "ok", "Ok")
    /\ UNCHANGED <<Others, Store, stats>>

\* the listing is exhausted: the attempt logs &peer.node_id[..8] and
\* replicate_repo returns Ok (replication.rs:220-221, 142-148)
AttemptDone ==
    /\ sweep.pc = "obj" /\ sweep.objs = <<>>
    /\ IF ~SliceOk(sweep.peers[sweep.pi])
       THEN /\ sweep' = Panicked(sweep)
            /\ UNCHANGED <<hosted_repos, reqLog>>
       ELSE /\ hosted_repos' = PushUnique(hosted_repos, sweep.cur)
            /\ sweep' = [sweep EXCEPT !.pc = "stats", !.result = "Ok",
                                      !.replicated[sweep.cur] = sweep.size]
            /\ reqLog' = LogLast(reqLog, "ok", "Ok")
    /\ UNCHANGED <<Others, Store, stats>>

\* replication.rs:72-76
SweepStats ==
    /\ sweep.pc = "stats"
    /\ stats' = [stats EXCEPT !.replication_count = @ + 1]
    /\ sweep' = [sweep EXCEPT !.pc = "announce"]
    /\ UNCHANGED <<Others, Store, hosted_repos, reqLog>>

\* a slip: a failed announce ends the sweep, as a ? would
AnnounceResponseFatal(resp) ==
    /\ sweep.pc = "announce"
    /\ sweep' = IF resp.kind = "ok"
                THEN [sweep EXCEPT !.pc = "cand", !.todo = Tail(@),
                                   !.announced = resp.kind]
                ELSE [NoSweep EXCEPT !.runs = sweep.runs]
    /\ UNCHANGED <<Others, Store, hosted_repos, stats, reqLog>>

\* announce_replica comes back, its outcome dropped (replication.rs:78-84)
AnnounceResponse(resp) ==
    /\ sweep.pc = "announce"
    /\ sweep' = [sweep EXCEPT !.pc = "cand", !.todo = Tail(@),
                              !.announced = resp.kind]
    /\ UNCHANGED <<Others, Store, hosted_repos, stats, reqLog>>

\* the for loop is over (replication.rs:97)
SweepEnd ==
    /\ sweep.pc = "cand" /\ sweep.todo = <<>>
    /\ sweep' = [NoSweep EXCEPT !.runs = sweep.runs]
    /\ reqLog' = <<>>
    /\ UNCHANGED <<Others, Store, hosted_repos, stats>>

SweepNext ==
    \/ \E tor \in BOOLEAN : SweepTick(tor)
    \/ \E resp \in Failed(<<>>) \cup Bodies(SeqsUpTo(RepoHashes, MaxUnhealthy)) :
          RegistryResponse(resp)
    \/ SweepSkipHosted
    \/ \E resp \in Failed(0) \cup Bodies(Sizes) : SizeResponse(resp)
    \/ \E resp \in Failed(<<>>) \cup Bodies(SeqsUpTo(PeerIds, MaxPeers)) :
          NodesResponse(resp)
    \/ PeerAttemptStart
    \/ \E resp \in Failed(<<>>) \cup Bodies(SeqsUpTo(SweepIds, MaxListing)) :
          ListResponse(resp)
    \/ \E resp \in Failed("") \cup {Resp("body", "")} \cup Bodies(SweepDatas),
          io \in BOOLEAN : ObjectResponse(resp, io)
    \/ AttemptDone
    \/ SweepStats
    \/ \E resp \in Failed(<<>>) \cup Bodies({<<>>}) : AnnounceResponse(resp)
    \/ SweepEnd

SpecSweep == Init /\ [][SweepNext]_vars

----------------------------------------------------------------------------
(* replication.rs: the task as main.rs starts it, beside the API *)

\* interval.tick().await returns (replication.rs:9-12)
ReplicationTick ==
    /\ sweep.pc = "idle"
    /\ sweep' = [sweep EXCEPT !.pc = "woken"]
    /\ UNCHANGED <<Others, Store, hosted_repos, stats, reqLog>>

\* the loop body up to the first request (replication.rs:14-31): the
\* ProxyConfig is the one from_config has just made
CheckAndReplicate ==
    LET proxy == from_config(config)
    IN  /\ sweep.pc = "woken"
        /\ sweep' = [sweep EXCEPT
                        !.pc = IF config.auto_replicate /\ build_client(proxy)
                               THEN "registry" ELSE "idle"]
        /\ UNCHANGED <<Others, Store, hosted_repos, stats, reqLog>>

\* the API serves another repository meanwhile
LoopNext ==
    \/ ReplicationTick
    \/ CheckAndReplicate
    \/ ApiInitRepo("repo0002")
    \/ \E id \in ObjectIds, p \in Payloads, io \in BOOLEAN :
          ApiStoreObject("repo0002", id, p, io)
    \/ \E n \in RefNames, c \in Commits : ApiUpdateRef("repo0002", n, c)

\* the timer keeps firing and the woken task keeps running
SpecLoop ==
    Init /\ [][LoopNext]_vars /\ WF_vars(ReplicationTick) /\ WF_vars(CheckAndReplicate)

----------------------------------------------------------------------------
(* health.rs: the capacity monitor.  f64 is modelled with MantBits bits of *)
(* significand for integers of TwoToW values: as in the program, fewer     *)
(* bits than the integers it is converted from.  A float is [m, e] for     *)
(* m * 2^e, rounded to nearest, ties to even.                              *)

MantBits == 6
MaxExp == 8

Pow2(k) == 2 ^ k

\* the exponent e with 2^(MantBits-1) <= n / (d * 2^e) < 2^MantBits
FlExp(n, d) ==
    CHOOSE e \in (-MaxExp)..MaxExp :
        LET N == n * Pow2(IF e < 0 THEN -e ELSE 0)
            D == d * Pow2(IF e > 0 THEN e ELSE 0)
        IN  Pow2(MantBits - 1) * D <= N /\ N < Pow2(MantBits) * D

\* the float nearest to n / d
Fl(n, d) ==
    IF n = 0 THEN [m |-> 0, e |-> 0]
    ELSE LET e == FlExp(n, d)
             N == n * Pow2(IF e < 0 THEN -e ELSE 0)
             D == d * Pow2(IF e > 0 THEN e ELSE 0)
             m0 == N \div D
             r2 == 2 * (N % D)
             m1 == IF r2 > D \/ (r2 = D /\ m0 % 2 = 1) THEN m0 + 1 ELSE m0
         IN  IF m1 = Pow2(MantBits)
             THEN [m |-> Pow2(MantBits - 1), e |-> e + 1]
             ELSE [m |-> m1, e |-> e]

\* used as f64
to_f64(u) == Fl(u, 1)

\* a / b for floats, b not zero
FDiv(a, b) ==
    Fl(a.m * Pow2(IF a.e > b.e THEN a.e - b.e ELSE 0),
       b.m * Pow2(IF b.e > a.e THEN b.e - a.e ELSE 0))

\* a * k for a float and a small integer
FMul(a, k) ==
    Fl(a.m * k * Pow2(IF a.e > 0 THEN a.e ELSE 0), Pow2(IF a.e < 0 THEN -a.e ELSE 0))

\* a > k
FGt(a, k) == IF a.e >= 0 THEN a.m * Pow2(a.e) > k ELSE a.m > k * Pow2(-a.e)

\* health.rs:121-127: "error", "warn" or "none"; a zero capacity divides to
\* infinity, or to NaN (which compares false) when nothing is used
Signal(used, capacity) ==
    IF capacity = 0 THEN (IF used = 0 THEN "none" ELSE "error")
    ELSE LET usage_percent == FMul(FDiv(to_f64(used), to_f64(capacity)), 100)
         IN  IF FGt(usage_percent, 90) THEN "error"
             ELSE IF FGt(usage_percent, 80) THEN "warn"
             ELSE "none"

\* one tick of monitor_storage (health.rs:116-138); io is whether the
\* storage could be read
MonitorTick(io) ==
    LET used == get_storage_usage(FSnow)
    IN  /\ IF io
           THEN /\ health' = [health EXCEPT !.monitor =
                                 [signal |-> Signal(used, config.storage_capacity),
                                  used |-> used]]
                /\ stats' = [stats EXCEPT !.repos_hosted = Len(hosted_repos)]
           ELSE /\ health' = [health EXCEPT !.monitor =
                                 [signal |-> "failed", used |-> 0]]
                /\ UNCHANGED stats
        /\ UNCHANGED <<config, dirs, files, hosted_repos, dht, written, overwrote,
                       initCalls, lastRef, batch, sweep, writers, locks, reqLog>>

\* capacities around the usage a small store reaches
MonitorConfigs ==
    [node_id : {"node0000"}, storage_capacity : {0, 23, 26, 30, 60},
     auto_replicate : {TRUE}, enable_dht : {TRUE}, enable_proxy : {TRUE}]

MonitorNext ==
    \/ \E io \in BOOLEAN : MonitorTick(io)
    \/ \E r \in RepoHashes : ApiInitRepo(r)
    \/ \E id \in {"aa11bb22", "bb11aa22"}, pl \in {"", "aGk="} :
          ApiStoreObject("repo0001", id, pl, TRUE)

SpecMonitor == Boot(MonitorConfigs) /\ [][MonitorNext]_vars

----------------------------------------------------------------------------
(* storage.rs: store_object on two threads of the runtime, one file-system *)
(* call at a time                                                          *)

WriterDatas == {"hi", "hiyo"}
WriterKeys == {<<"repo0001", "aa11bb22">>, <<"repo0001", "aa22bb11">>,
               <<"repo0002", "aa11bb22">>}

\* File::create: the file exists and is empty afterwards
fs_create(fs, p) == fs_write(fs, p, "")

\* write_all through a descriptor opened by File::create: the bytes go to
\* offset 0, what the file holds beyond them stays
WriteAt(old, bytes) == bytes \o SubSeq(old, Len(bytes) + 1, Len(old))

fs_write_all(fs, p, bytes) ==
    IF ~IsFile(fs, p) THEN Res("Io", fs)
    ELSE Res("Ok", FS(fs.dirs, [fs.files EXCEPT ![p] = WriteAt(@, bytes)]))

\* a handler thread enters store_object (storage.rs:48)
WriterCall(w, repo_hash, object_id, data) ==
    /\ writers[w].pc = "idle"
    /\ writers' = [writers EXCEPT ![w] =
                      [pc |-> "check", repo |-> repo_hash, id |-> object_id,
                       data |-> data, st |-> "none"]]
    /\ UNCHANGED <<config, dirs, files, hosted_repos, stats, dht, written,
                   overwrote, initCalls, lastRef, health, batch, sweep, locks,
                   reqLog>>

\* the file-system call the writer is at, and where it goes from there
WriterOp(fs, wr) ==
    LET r == wr.repo
    IN  CASE wr.pc = "check" ->
               [res |-> Res("Ok", fs),
                pc |-> IF Exists(fs, objects_path(r)) THEN "subdir" ELSE "init1"]
          [] wr.pc = "init1" ->
               [res |-> create_dir_all(fs, repo_path(r)), pc |-> "init2"]
          [] wr.pc = "init2" ->
               [res |-> create_dir_all(fs, objects_path(r)), pc |-> "init3"]
          [] wr.pc = "init3" ->
               [res |-> create_dir_all(fs, refs_path(r) \o <<"heads">>), pc |-> "init4"]
          [] wr.pc = "init4" ->
               [res |-> create_dir_all(fs, refs_path(r) \o <<"tags">>), pc |-> "init5"]
          [] wr.pc = "init5" ->
               [res |-> fs_write(fs, head_path(r), DefaultHead), pc |-> "subdir"]
          [] wr.pc = "subdir" ->
               [res |-> IF Len(wr.id) < 2 THEN Res("Panic", fs)
                        ELSE create_dir_all(fs, objects_path(r) \o <<Subdir(wr.id)>>),
                pc |-> "create"]
          [] wr.pc = "create" ->
               [res |-> fs_create(fs, object_path(r, wr.id)), pc |-> "write"]
          [] wr.pc = "write" ->
               [res |-> fs_write_all(fs, object_path(r, wr.id), Compress(wr.data)),
                pc |-> "done"]

\* one file-system call of store_object (storage.rs:49-69); an error
\* returns from the call
WriterStep(w) ==
    LET op == WriterOp(FSnow, writers[w])
    IN  /\ writers[w].pc \notin {"idle", "done"}
        /\ SetFS(op.res.fs)
        /\ writers' = [writers EXCEPT ![w] =
                          IF ~IsOk(op.res) THEN [@ EXCEPT !.pc = "done", !.st = op.res.st]
                          ELSE IF op.pc = "done" THEN [@ EXCEPT !.pc = "done", !.st = "Ok"]
                          ELSE [@ EXCEPT !.pc = op.pc]]
        /\ UNCHANGED <<config, hosted_repos, stats, dht, written, overwrote,
                       initCalls, lastRef, health, batch, sweep, locks, reqLog>>

WritersNext ==
    \/ \E w \in WriterIds, k \in WriterKeys, d \in WriterDatas :
          WriterCall(w, k[1], k[2], d)
    \/ \E w \in WriterIds : WriterStep(w)

SpecWriters == Init /\ [][WritersNext]_vars

----------------------------------------------------------------------------
(* storage.rs: delete_repo next to the handlers that fill repositories *)

\* GitStorage::delete_repo called by a holder of the storage
DeleteRepo(repo_hash) ==
    /\ SetFS(delete_repo(FSnow, repo_hash).fs)
    /\ UNCHANGED <<config, hosted_repos, stats, dht, written, overwrote,
                   initCalls, lastRef, health, batch, sweep, writers, locks, reqLog>>

DeleteNext ==
    \/ \E r \in RepoHashes : ApiInitRepo(r)
    \/ \E r \in RepoHashes, id \in {"aa11bb22", "bb11aa22"} :
          ApiStoreObject(r, id, "aGk=", TRUE)
    \/ \E r \in RepoHashes : ApiUpdateRef(r, <<"refs", "heads", "main">>, "c0ffee01")
    \/ \E r \in RepoHashes : DeleteRepo(r)

SpecDelete == Init /\ [][DeleteNext]_vars

----------------------------------------------------------------------------
(* api.rs: the packfile handler next to the handlers that fill a repository *)

MaxServed == 4     \* bytes served before the packfile handler is left alone

\* GET /repos/{hash}/packfile (api.rs:271-286)
ApiGetPackfile(repo_hash) ==
    LET pack == create_pack(FSnow, repo_hash)
    IN  /\ stats.bytes_served < MaxServed
        /\ stats' = IF pack.st = "Ok"
                    THEN [stats EXCEPT !.bytes_served = AsU64(@ + Len(pack.data))]
                    ELSE stats
        /\ UNCHANGED <<config, dirs, files, hosted_repos, dht, written, overwrote,
                       initCalls, lastRef, health, batch, sweep, writers, locks, reqLog>>

PackNext ==
    \/ \E r \in RepoHashes : ApiInitRepo(r)
    \/ \E id \in ObjectIds, pl \in {"", "aGk=", "eW8="} :
          ApiStoreObject("repo0001", id, pl, TRUE)
    \/ \E r \in RepoHashes : ApiGetPackfile(r)

SpecPack == Init /\ [][PackNext]_vars

----------------------------------------------------------------------------
(* main.rs: the process exits and start_node runs again on the same disk *)

\* start_node builds a fresh NodeState and loads the hosted list from the
\* directories of the storage path (main.rs:232-246); requests and tasks of
\* the previous process are gone
StartNode ==
    /\ hosted_repos' = list_hosted_repos(FSnow)
    /\ stats' = NodeStats0
    /\ dht' = NewDHT
    /\ health' = NoHealth
    /\ batch' = NoBatch
    /\ sweep' = NoSweep
    /\ writers' = [w \in WriterIds |-> NoWriter]
    /\ locks' = NoLocks
    /\ reqLog' = <<>>
    /\ UNCHANGED <<config, dirs, files, written, overwrote, initCalls, lastRef>>

RestartNext ==
    \/ \E r \in RepoHashes : ApiInitRepo(r)
    \/ \E io \in BOOLEAN : ApiStoreObject("repo0001", "aa11bb22", "aGk=", io)
    \/ ApiUpdateRef("repo0001", <<"refs", "heads", "main">>, "c0ffee01")
    \/ \E n \in 0..1 : BatchBegin("repo0002", n)
    \/ \E p \in {"aGk=", "!!"} : BatchItem("bb11aa22", p, TRUE)
    \/ BatchEnd
    \/ StartNode

SpecRestart == Init /\ [][RestartNext]_vars

----------------------------------------------------------------------------
(* http_client.rs: a request waits for its response unless a timeout was set *)

\* RequestBuilder::timeout per call site: send_heartbeat sets ten seconds,
\* no request of replication.rs sets one (RequestBuilder::new: None)
Timeout(call) == IF call = "heartbeat" THEN Some(10) ELSE None

\* RequestBuilder::send on a pending call with a timeout: "Request timed out"
RequestTimedOut ==
    /\ Timeout(sweep.pc) # None
    /\ \/ RegistryResponse(Resp("err", <<>>))
       \/ SizeResponse(Resp("err", 0))
       \/ NodesResponse(Resp("err", <<>>))
       \/ ListResponse(Resp("err", <<>>))
       \/ ObjectResponse(Resp("err", ""), TRUE)
       \/ AnnounceResponse(Resp("err", <<>>))

\* a sweep against one registry entry and one peer; the remote side may
\* answer, fail or never answer
HangNext ==
    \/ SweepTick(TRUE)
    \/ \E resp \in Failed(<<>>) \cup Bodies({<<"repo0001">>, <<"repo0001", "repo0002">>}) :
          RegistryResponse(resp)
    \/ SweepSkipHosted
    \/ \E resp \in Failed(0) \cup Bodies({12}) : SizeResponse(resp)
    \/ \E resp \in Failed(<<>>) \cup Bodies({<<"peer0001">>}) : NodesResponse(resp)
    \/ PeerAttemptStart
    \/ \E resp \in Failed(<<>>) \cup Bodies({<<"aa11bb22">>}) : ListResponse(resp)
    \/ \E resp \in Failed("") \cup Bodies({"hi"}) : ObjectResponse(resp, TRUE)
    \/ AttemptDone
    \/ SweepStats
    \/ \E resp \in Failed(<<>>) \cup Bodies({<<>>}) : AnnounceResponse(resp)
    \/ SweepEnd

\* the task takes every step that is its own; a response is owed only to a
\* request that carries a timeout
SpecHang ==
    /\ Init /\ [][HangNext]_vars
    /\ WF_vars(SweepTick(TRUE)) /\ WF_vars(SweepSkipHosted)
    /\ WF_vars(PeerAttemptStart) /\ WF_vars(AttemptDone)
    /\ WF_vars(SweepStats) /\ WF_vars(SweepEnd)
    /\ WF_vars(RequestTimedOut)

\* a peer id shorter than the eight bytes the log lines slice
ShortPeerIds == {"p1"}

\* a sweep over two candidates whose peers the registry names by ids of any
\* length
IsolateNext ==
    \/ SweepTick(TRUE)
    \/ \E resp \in Failed(<<>>) \cup Bodies({<<"repo0001", "repo0002">>,
                                              <<"repo0002", "repo0001">>}) :
          RegistryResponse(resp)
    \/ SweepSkipHosted
    \/ \E resp \in Failed(0) \cup Bodies({0, 12, 40}) : SizeResponse(resp)
    \/ \E resp \in Failed(<<>>)
                  \cup Bodies(SeqsUpTo(ShortPeerIds \cup {"peer0001"}, MaxPeers)) :
          NodesResponse(resp)
    \/ PeerAttemptStart
    \/ \E resp \in Failed(<<>>) \cup Bodies({<<"aa11bb22">>}) : ListResponse(resp)
    \/ \E resp \in Failed("") \cup Bodies({"hi"}), io \in BOOLEAN :
          ObjectResponse(resp, io)
    \/ AttemptDone
    \/ SweepStats
    \/ \E resp \in Failed(<<>>) \cup Bodies({<<>>}) : AnnounceResponse(resp)
    \/ SweepEnd

SpecIsolate == Init /\ [][IsolateNext]_vars

\* every writer of the hosted list side by side: the init, store and batch
\* handlers, a sweep whose registry may name a candidate twice, and the load
\* at start-up
UniqueNext ==
    \/ SweepTick(TRUE)
    \/ \E resp \in Bodies({<<"repo0001", "repo0001">>, <<"repo0002", "repo0001">>}) :
          RegistryResponse(resp)
    \/ SweepSkipHosted
    \/ \E resp \in Failed(0) \cup Bodies({0}) : SizeResponse(resp)
    \/ NodesResponse(Resp("ok", <<"peer0001">>))
    \/ PeerAttemptStart
    \/ ListResponse(Resp("ok", <<"aa11bb22">>))
    \/ ObjectResponse(Resp("ok", "hi"), TRUE)
    \/ AttemptDone
    \/ SweepStats
    \/ AnnounceResponse(Resp("ok", <<>>))
    \/ SweepEnd
    \/ ApiInitRepo("repo0001")
    \/ ApiStoreObject("repo0001", "aa11bb22", "aGk=", TRUE)
    \/ \E n \in 0..1 : BatchBegin("repo0002", n)
    \/ BatchItem("aa11bb22", "aGk=", TRUE)
    \/ BatchEnd
    \/ StartNode

SpecUnique == Init /\ [][UniqueNext]_vars

\* the replication task under either setting of auto_replicate, next to
\* API requests that put a repository on disk
SkipNext ==
    \/ HangNext
    \/ ApiInitRepo("repo0002")
    \/ ApiStoreObject("repo0002", "bb11aa22", "aGk=", TRUE)

SpecSkip == InitAny /\ [][SkipNext]_vars

----------------------------------------------------------------------------
(* health.rs: heartbeat and the verification it spawns *)

HeartbeatSecs == 60
VerifyEvery == 3600
MaxTicks == 61     \* heartbeat ticks explored

\* the inner loop of verify_all_repos (health.rs:89-99) from object i on
RECURSIVE VerifyObjects(_, _, _, _, _)
VerifyObjects(fs, repo_hash, objects, i, acc) ==
    IF i > Len(objects) THEN acc
    ELSE LET v == verify_object(fs, repo_hash, objects[i])
         IN  IF v.st = "Panic" THEN [acc EXCEPT !.st = "Panic"]
             ELSE IF v.st = "Ok" /\ v.valid
             THEN VerifyObjects(fs, repo_hash, objects, i + 1,
                                [acc EXCEPT !.visited = @ + 1])
             ELSE IF SliceOk(repo_hash) /\ SliceOk(objects[i])
             THEN VerifyObjects(fs, repo_hash, objects, i + 1,
                                [acc EXCEPT !.visited = @ + 1,
                                            !.corrupted = @ + 1])
             ELSE [acc EXCEPT !.st = "Panic"]

\* the outer loop (health.rs:85-100) from repository i on; checked counts
\* the repositories gone through, visited the objects verify_object was
\* called on and whose outcome was handled
RECURSIVE VerifyRepos(_, _, _, _)
VerifyRepos(fs, repos, i, acc) ==
    IF i > Len(repos) THEN [acc EXCEPT !.st = "Ok"]
    ELSE LET l == list_objects(fs, repos[i])
             a1 == [acc EXCEPT !.total = @ + Len(l.objects)]
             a2 == VerifyObjects(fs, repos[i], l.objects, 1, a1)
         IN  IF l.st # "Ok" THEN [acc EXCEPT !.st = "Err"]
             ELSE IF a2.st = "Panic" THEN a2
             ELSE VerifyRepos(fs, repos, i + 1, [a2 EXCEPT !.checked = @ + 1])

\* the objects of the repositories of a hosted list, from repository i on
RECURSIVE CountObjects(_, _, _)
CountObjects(fs, repos, i) ==
    IF i > Len(repos) THEN 0
    ELSE LET l == list_objects(fs, repos[i])
         IN  (IF l.st = "Ok" THEN Len(l.objects) ELSE 0)
             + CountObjects(fs, repos, i + 1)

verify_all_repos(fs, repos) ==
    VerifyRepos(fs, repos, 1, [NoVerify EXCEPT !.st = "run", !.repos = Len(repos)])

\* a slip: the hour is counted from the heartbeats that went through
HeartbeatTickOnSuccess(resp) ==
    LET uptime == health.uptime + (IF resp.kind = "ok" THEN HeartbeatSecs ELSE 0)
        spawn == uptime % VerifyEvery = 0
    IN  /\ health.uptime < HeartbeatSecs * MaxTicks
        /\ health.ticks < MaxTicks
        /\ stats' = [stats EXCEPT !.uptime_seconds = uptime]
        /\ health' = [health EXCEPT
                        !.uptime = uptime,
                        !.ticks = @ + 1,
                        !.spawns = IF spawn THEN @ + 1 ELSE @,
                        !.spawned = @ \/ spawn]
        /\ UNCHANGED <<config, dirs, files, hosted_repos, dht, written, overwrote,
                       initCalls, lastRef, batch, sweep, reqLog,
                       writers, locks>>

\* one tick of heartbeat_loop (health.rs:19-45); resp is what the registry
\* answers to the heartbeat; ticks and spawns count the ticks taken and the
\* verification tasks handed to tokio::spawn
HeartbeatTick(resp) ==
    LET uptime == health.uptime + HeartbeatSecs
        spawn == uptime % VerifyEvery = 0
    IN  /\ health.uptime < HeartbeatSecs * MaxTicks
        /\ stats' = [stats EXCEPT !.uptime_seconds = uptime]
        /\ health' = [health EXCEPT
                        !.uptime = uptime,
                        !.ticks = @ + 1,
                        !.spawns = IF spawn THEN @ + 1 ELSE @,
                        !.spawned = @ \/ spawn]
        /\ UNCHANGED <<config, dirs, files, hosted_repos, dht, written, overwrote,
                       initCalls, lastRef, batch, sweep, reqLog,
                       writers, locks>>

\* the spawned task runs verify_all_repos (health.rs:36-42, 78-109)
VerifyAllRepos ==
    /\ health.spawned
    /\ health' = [health EXCEPT
                    !.spawned = FALSE,
                    !.verify = verify_all_repos(FSnow, hosted_repos)]
    /\ UNCHANGED <<config, dirs, files, hosted_repos, stats, dht, written,
                   overwrote, initCalls, lastRef, batch, sweep, reqLog,
                   writers, locks>>

HealthNext ==
    \/ \E resp \in Failed(<<>>) \cup Bodies({<<>>}) : HeartbeatTick(resp)
    \/ VerifyAllRepos
    \/ \E r \in RepoHashes : ApiInitRepo(r)
    \/ \E id \in {"aa11bb22"} \cup ShortIds, p \in {"", "aGk="} :
          ApiStoreObject("repo0001", id, p, TRUE)

SpecHealth == Init /\ [][HealthNext]_vars

----------------------------------------------------------------------------
----------------------------------------------------------------------------
(* The locks of NodeState: stats, hosted_repos and dht are tokio RwLocks,    *)
(* fair queues whose release hands the lock to the waiters at the head; the  *)
(* tasks run on the worker threads #[tokio::main] starts (main.rs:110).      *)

Op(k, l, m, end) == [k |-> k, l |-> l, m |-> m, end |-> end]

\* the lock operations of each task, in program order
Prog(t) ==
    IF t \in {"get1", "get2"}
    THEN \* get_object (api.rs:127-150)
         << Op("acq", "stats", "W", FALSE),  Op("rel", "stats", "W", FALSE),
            Op("read", "", "", FALSE),
            Op("block_on", "stats", "W", FALSE), Op("rel", "stats", "W", TRUE),
            Op("acq", "stats", "W", FALSE),  Op("rel", "stats", "W", TRUE) >>
    ELSE IF t = "status"
    THEN \* get_status (api.rs:86-114)
         << Op("acq", "stats", "R", FALSE), Op("acq", "hosted_repos", "R", FALSE),
            Op("acq", "dht", "R", FALSE),   Op("rel", "dht", "R", FALSE),
            Op("rel", "hosted_repos", "R", FALSE), Op("rel", "stats", "R", TRUE) >>
    ELSE IF t = "monitor"
    THEN \* monitor_storage (health.rs:130-133)
         << Op("acq", "stats", "W", FALSE), Op("acq", "hosted_repos", "R", FALSE),
            Op("rel", "hosted_repos", "R", FALSE), Op("rel", "stats", "W", TRUE) >>
    ELSE IF t = "store"
    THEN \* store_object handler (api.rs:162-172)
         << Op("write", "", "", FALSE),
            Op("acq", "hosted_repos", "W", FALSE),
            Op("rel", "hosted_repos", "W", TRUE) >>
    ELSE \* announcement_loop (dht.rs:56-63)
         << Op("acq", "hosted_repos", "R", FALSE),
            Op("rel", "hosted_repos", "R", FALSE),
            Op("acq", "dht", "W", FALSE), Op("rel", "dht", "W", TRUE) >>

\* a request is granted at once when nobody waits and the holders allow it
Grantable(lk, l, m) ==
    /\ lk.queue[l] = <<>>
    /\ \/ lk.held[l] = {}
       \/ m = "R" /\ \A h \in lk.held[l] : h[2] = "R"

\* release hands the lock to the waiters at the head of the queue
RECURSIVE Handoff(_, _)
Handoff(held, queue) ==
    IF queue = <<>> THEN [held |-> held, queue |-> queue]
    ELSE LET h == Head(queue)
         IN  IF held = {} \/ (h[2] = "R" /\ \A x \in held : x[2] = "R")
             THEN Handoff(held \cup {h}, Tail(queue))
             ELSE [held |-> held, queue |-> queue]

\* a slip: the failure is counted where the request should be
StatsAfterFailedFirst(t, pc) ==
    IF t \in {"get1", "get2"}
    THEN IF pc = 2 THEN [stats EXCEPT !.failed_requests = AsU64(@ + 1)]
         ELSE IF pc = 5 THEN [stats EXCEPT !.total_requests = AsU64(@ + 1)]
         ELSE IF pc = 7
         THEN [stats EXCEPT !.bytes_served = AsU64(@ + locks.tk[t].loc[1])]
         ELSE stats
    ELSE IF t = "monitor" /\ pc = 3
    THEN [stats EXCEPT !.repos_hosted = Len(hosted_repos)]
    ELSE stats

\* what the step of t at pc does to the node's data
StatsAfter(t, pc) ==
    IF t \in {"get1", "get2"}
    THEN IF pc = 2 THEN [stats EXCEPT !.total_requests = AsU64(@ + 1)]
         ELSE IF pc = 5 THEN [stats EXCEPT !.failed_requests = AsU64(@ + 1)]
         ELSE IF pc = 7
         THEN [stats EXCEPT !.bytes_served = AsU64(@ + locks.tk[t].loc[1])]
         ELSE stats
    ELSE IF t = "monitor" /\ pc = 3
    THEN [stats EXCEPT !.repos_hosted = Len(hosted_repos)]
    ELSE stats

\* the worker thread is neither polling a task nor blocked inside one
WorkerFree(w) ==
    \A u \in Tasks : locks.tk[u].on \in {"run", "blocked"} => locks.tk[u].w # w

\* a free worker polls a task that is new or was woken (of the free workers,
\* which are alike, the first)
CanPoll(t, w) ==
    /\ locks.tk[t].on \in {"new", "ready"}
    /\ WorkerFree(w)
    /\ \A v \in 1..(w - 1) : ~WorkerFree(v)

Poll(t, w) ==
    /\ CanPoll(t, w)
    /\ locks' = [locks EXCEPT !.tk[t].on = "run", !.tk[t].w = w]
    /\ UNCHANGED <<config, dirs, files, hosted_repos, stats, dht, written,
                   overwrote, initCalls, lastRef, health, batch, sweep, writers,
                   reqLog>>

\* a step of the running task t that leaves its worker free when it has to
\* wait: .await on a lock, a release, the object read or write. The read and
\* store requests name the object aa11bb22 of repo0001
TaskStepAwait(t) ==
    LET me == locks.tk[t]
        op == Prog(t)[me.pc]
        stored == store_object(FSnow, "repo0001", "aa11bb22", "hi", TRUE)
        got == read_object(FSnow, "repo0001", "aa11bb22")
        after == Handoff(locks.held[op.l] \ {<<t, op.m>>}, locks.queue[op.l])
        woken == IF op.k = "rel"
                 THEN {h[1] : h \in after.held \ locks.held[op.l]}
                 ELSE {}
    IN  /\ me.on = "run"
        /\ locks' =
              IF op.k \in {"acq", "block_on"}
              THEN IF Grantable(locks, op.l, op.m)
                   THEN [locks EXCEPT !.held[op.l] = @ \cup {<<t, op.m>>},
                                      !.tk[t].pc = @ + 1]
                   ELSE [locks EXCEPT !.queue[op.l] = Append(@, <<t, op.m>>),
                                      !.tk[t].on = "parked",
                                      !.tk[t].w = 0]
              ELSE IF op.k = "rel"
              THEN [locks EXCEPT
                      !.held[op.l] = after.held,
                      !.queue[op.l] = after.queue,
                      !.tk = [u \in Tasks |->
                                LET old == locks.tk[u]
                                IN  IF u = t
                                    THEN IF op.end
                                         THEN [old EXCEPT !.on = "done", !.w = 0]
                                         ELSE [old EXCEPT
                                                 !.pc = @ + 1,
                                                 !.loc = IF t = "announce"
                                                         THEN hosted_repos ELSE @]
                                    ELSE IF u \in woken
                                    THEN IF old.on = "blocked"
                                         THEN [old EXCEPT !.pc = @ + 1, !.on = "run"]
                                         ELSE [old EXCEPT
                                                 !.pc = @ + 1, !.on = "ready"]
                                    ELSE old]]
              ELSE IF op.k = "read"
              THEN [locks EXCEPT
                      !.tk[t].pc = IF IsOk(got) THEN 6 ELSE 4,
                      !.tk[t].loc = IF IsOk(got) THEN <<Len(got.data)>> ELSE <<>>]
              ELSE [locks EXCEPT !.tk[t].pc = @ + 1]
        /\ stats' = IF op.k = "rel" THEN StatsAfter(t, me.pc) ELSE stats
        /\ hosted_repos' = IF t = "store" /\ op.k = "rel"
                           THEN PushUnique(hosted_repos, "repo0001")
                           ELSE hosted_repos
        /\ dht' = IF t = "announce" /\ op.k = "rel" /\ op.l = "dht"
                  THEN AnnounceAll(dht, me.loc, config.node_id)
                  ELSE dht
        /\ IF op.k = "write"
           THEN /\ SetFS(stored.fs)
                /\ written' = Written(written, "repo0001", "aa11bb22", "hi", stored)
                /\ overwrote' = Overwrote("repo0001", "aa11bb22", "hi", stored)
           ELSE UNCHANGED <<dirs, files, written, overwrote>>
        /\ UNCHANGED <<config, initCalls, lastRef, health, batch, sweep, writers,
                       reqLog>>

\* the running task t takes its next step; block_on (api.rs:139-143) waits
\* on the worker thread itself
TaskStep(t) ==
    LET me == locks.tk[t]
        op == Prog(t)[me.pc]
    IN  IF me.on = "run" /\ op.k = "block_on" /\ ~Grantable(locks, op.l, op.m)
        THEN /\ locks' = [locks EXCEPT !.queue[op.l] = Append(@, <<t, op.m>>),
                                       !.tk[t].on = "blocked"]
             /\ UNCHANGED <<config, dirs, files, hosted_repos, stats, dht,
                            written, overwrote, initCalls, lastRef, health,
                            batch, sweep, writers, reqLog>>
        ELSE TaskStepAwait(t)

LocksNext ==
    \/ \E t \in Tasks, w \in Workers : Poll(t, w)
    \/ \E t \in Tasks : TaskStep(t)

SpecLocks == Init /\ [][LocksNext]_vars

\* every writer of the counters: two object reads as tasks, the pack handler
\* and a sweep that replicates repo0002, next to a store request that makes
\* the reads succeed
CountersNext ==
    \/ \E t \in {"get1", "get2"}, w \in Workers : Poll(t, w)
    \/ \E t \in {"get1", "get2"} : TaskStep(t)
    \/ ApiStoreObject("repo0001", "aa11bb22", "aGk=", TRUE)
    \/ ApiGetPackfile("repo0001")
    \/ SweepTick(TRUE)
    \/ RegistryResponse(Resp("ok", <<"repo0002">>))
    \/ SweepSkipHosted
    \/ SizeResponse(Resp("ok", 0))
    \/ NodesResponse(Resp("ok", <<"peer0001">>))
    \/ PeerAttemptStart
    \/ ListResponse(Resp("ok", <<>>))
    \/ AttemptDone
    \/ SweepStats
    \/ AnnounceResponse(Resp("ok", <<>>))
    \/ SweepEnd

SpecCounters == Init /\ [][CountersNext]_vars

(* C1: after successful store_object calls, read_object returns exactly the *)
(* bytes of the most recent store_object for that repository and object id, *)
(* also when that call replaced an earlier value.                           *)
C1_RoundTrip ==
    \A k \in Keys :
        written[k] # None =>
            read_object(FSnow, k[1], k[2]) = [st |-> "Ok", data |-> written[k][1]]

\* an object was stored again with other bytes, next to a second object
C1_Witness ==
    /\ overwrote
    /\ written[<<"repo0001", "aa11bb22">>] = Some("hi")
    /\ written[<<"repo0001", "aa22bb11">>] = Some("")

(* C8: once store_object succeeded for an id, list_objects of the          *)
(* repository contains that id exactly once, however often it was stored.  *)
C8_ListedOnce ==
    \A k \in Keys :
        written[k] # None =>
            LET l == list_objects(FSnow, k[1])
            IN  l.st = "Ok" /\ Count(l.objects, k[2]) = 1

\* three ids over two fan-out directories, one of them stored repeatedly
C8_Witness ==
    /\ overwrote
    /\ \A id \in ObjectIds : written[<<"repo0001", id>>] # None
    /\ Len(list_objects(FSnow, "repo0001").objects) = 3

(* C9: verify_object is true only for an object that exists, decompresses  *)
(* and is non-empty; after store_object of bytes b it is true exactly when *)
(* b is non-empty, whatever the object id.                                 *)
C9_VerifyNonEmpty ==
    \A k \in Keys :
        LET v == verify_object(FSnow, k[1], k[2])
            p == object_path(k[1], k[2])
        IN  /\ (v.st = "Ok" /\ v.valid) =>
                  /\ IsFile(FSnow, p)
                  /\ Decompress(files[p]).ok
                  /\ Decompress(files[p]).data # ""
            /\ written[k] # None =>
                  v = [st |-> "Ok", valid |-> written[k][1] # ""]

\* the same bytes verify under two ids; an empty object does not verify
C9_Witness ==
    /\ written[<<"repo0001", "aa11bb22">>] = Some("hi")
    /\ written[<<"repo0001", "bb11aa22">>] = Some("hi")
    /\ written[<<"repo0001", "aa22bb11">>] = Some("")
    /\ ~verify_object(FSnow, "repo0001", "aa22bb11").valid
    /\ verify_object(FSnow, "repo0001", "aa11bb22").valid

(* C10: init_repo is idempotent: from every store state a second call in a *)
(* row returns what the first returned and leaves exactly what the first   *)
(* left (directories, HEAD, refs and objects); once init_repo succeeded    *)
(* for a repository it never fails for it.                                 *)
C10_InitIdempotent ==
    \A r \in RepoHashes :
        LET once == init_repo(FSnow, r)
            twice == init_repo(once.fs, r)
        IN  /\ twice = once
            /\ initCalls[r] > 0 => IsOk(once)

\* init_repo ran twice on a repository that holds an object and a branch ref
C10_Witness ==
    /\ initCalls["repo0001"] = 2
    /\ written[<<"repo0001", "aa11bb22">>] = Some("hi")
    /\ read_ref(FSnow, "repo0001", <<"refs", "heads", "main">>).st = "Ok"
    /\ init_repo(FSnow, "repo0001").fs = FSnow

(* C4: announce is idempotent: after any number of announce calls for a    *)
(* repo_hash and node_id, by callers or by the self-announcement loop,     *)
(* query(repo_hash) contains node_id exactly once.                         *)
C4_AnnounceOnce ==
    \A r \in RepoHashes, n \in NodeIds :
        Contains(query_content(dht, r), n) => Count(query_content(dht, r), n) = 1

(* C7: batch store handles every item of the request: uploaded plus the    *)
(* length of the failure list is the number of items handled so far and,   *)
(* in the response, of the request; an item joins the failure list exactly *)
(* when its payload does not decode or its store fails; an item that       *)
(* decodes and stores is counted and reads back, also after a failing      *)
(* item; the response comes with the repository in the hosted list.        *)
C7_BatchState ==
    /\ batch.pc \in {"run", "done"} =>
          batch.uploaded + Len(batch.failed) = batch.total - batch.left
    /\ batch.pc = "done" =>
          /\ batch.uploaded + Len(batch.failed) = batch.total
          /\ Contains(hosted_repos, batch.repo)

C7_BatchStep ==
    \A id \in BatchIds, p \in Payloads, io \in BOOLEAN :
        BatchItem(id, p, io) =>
            LET dec == Base64Decode(p)
                bad == \/ ~dec.ok
                       \/ ~IsOk(store_object(FSnow, batch.repo, id, dec.data, io))
            IN  /\ batch'.pc = "run"
                /\ bad => /\ batch'.failed = Append(batch.failed, id)
                          /\ batch'.uploaded = batch.uploaded
                /\ ~bad => /\ batch'.failed = batch.failed
                           /\ batch'.uploaded = batch.uploaded + 1
                           /\ read_object(FS(dirs', files'), batch.repo, id)
                                 = [st |-> "Ok", data |-> dec.data]

C2_CapacityCheck ==
    sweep.pc \in {"nodes", "peer", "list", "obj", "stats", "announce"} =>
        ~(sweep.size > config.storage_capacity - sweep.used)

(* C3: peers are attempted in the order the registry returned and none     *)
(* after the first successful one; with peers [P1, P2], P1's listing fetch *)
(* failing and P2's succeeding, the repository ends in the hosted list.    *)
C3_Failover ==
    /\ \A i \in 1..Len(reqLog) :
          /\ reqLog[i].peer = sweep.peers[i]
          /\ reqLog[i].res = "Ok" => i = Len(reqLog)
    /\ ( /\ sweep.result # "none"
         /\ Len(sweep.peers) = 2 /\ sweep.peers[1] # sweep.peers[2]
         /\ Len(reqLog) = 2
         /\ reqLog[1].list = "fail" /\ reqLog[2].list = "ok" )
       => /\ sweep.result = "Ok"
          /\ Contains(hosted_repos, sweep.cur)

(* C5: when every peer attempt for a candidate has failed, the hosted      *)
(* list, the counters and the store's directories and files are what they  *)
(* were before the candidate was processed.                                *)
C5_AbandonUnchanged ==
    (sweep.result = "Err" /\ sweep.peers # <<>>) =>
        /\ sweep.pre = Some([dirs |-> dirs, files |-> files,
                             hosted |-> hosted_repos, stats |-> stats])
        /\ list_hosted_repos(FSnow)
              = list_hosted_repos(FS(sweep.pre[1].dirs, sweep.pre[1].files))
        /\ ~Contains(hosted_repos, sweep.cur)

(* C6: within one sweep the reported sizes of the repositories replicated  *)
(* so far add up to no more than the capacity available at its start.      *)
C6_WithinCapacity ==
    LET rs == SetToSeq(RepoHashes)
    IN  sweep.pc # "idle" =>
           SumSeq([i \in 1..Len(rs) |-> sweep.replicated[rs[i]]]) <= sweep.avail

(* C11: refs are last-write-wins pointers: a ref that was never set reads  *)
(* as NotFound and no other error (HEAD of an initialized repository has   *)
(* the default init_repo gave it), and a ref that was set reads as the     *)
(* commit id of its most recent update_ref, trimmed of whitespace.         *)
C11_RefsLastWriteWins ==
    \A r \in RepoHashes, n \in RefNames :
        LET got == read_ref(FSnow, r, n)
            last == lastRef[<<r, n>>]
        IN  /\ last = None =>
                \/ got.st = "NotFound"
                \/ n = <<"HEAD">> /\ got = [st |-> "Ok", val |-> Trim(DefaultHead)]
            /\ last # None => got = [st |-> "Ok", val |-> Trim(last[1])]

(* C12: for every repository and every object id, of any length, under    *)
(* which no object is stored, read_object fails with NotFound, and         *)
(* list_objects on a repository that was never initialized returns the     *)
(* empty list without error.                                               *)
C12_AbsentReads ==
    \A r \in RepoHashes :
        /\ \A id \in ReadIds :
              (<<r, id>> \notin Keys \/ written[<<r, id>>] = None) =>
                  read_object(FSnow, r, id).st = "NotFound"
        /\ ~Exists(FSnow, repo_path(r)) =>
              list_objects(FSnow, r) = [st |-> "Ok", objects |-> <<>>]

(* C13: within a peer attempt an object whose fetch fails (transport       *)
(* error, non-success status, or its bytes cannot be read) is skipped: the *)
(* attempt stays with the same peer and goes on to the rest of the         *)
(* listing, and what is already stored stays as it is.                     *)
C13_ObjectFailureSkipped ==
    [][\A resp \in Failed("") \cup {Resp("body", "")}, io \in BOOLEAN :
          ObjectResponse(resp, io) =>
              /\ sweep'.pc = "obj"
              /\ sweep'.pi = sweep.pi
              /\ sweep'.objs = Tail(sweep.objs)
              /\ UNCHANGED <<dirs, files, hosted_repos, health>>]_vars

(* C14: a successful peer attempt puts the repository in the hosted list,  *)
(* then adds exactly one to the replication counter, then attempts the     *)
(* announce; whatever the announce comes back with, the hosted list, the   *)
(* counter and the store stay as the replication left them and the sweep   *)
(* goes on to its next candidate.                                          *)
C14_Committed ==
    /\ sweep.pc = "stats" =>
          /\ Contains(hosted_repos, sweep.cur)
          /\ stats.replication_count = sweep.pre[1].stats.replication_count
    /\ (sweep.pc = "announce" \/ sweep.announced # "none") =>
          /\ Contains(hosted_repos, sweep.cur)
          /\ stats.replication_count = sweep.pre[1].stats.replication_count + 1

C14_AnnounceStep ==
    \A resp \in Failed(<<>>) \cup Bodies({<<>>}) :
        AnnounceResponse(resp) =>
            /\ UNCHANGED <<dirs, files, hosted_repos, stats, health>>
            /\ sweep'.pc = "cand"
            /\ sweep'.todo = Tail(sweep.todo)
            /\ sweep'.runs = sweep.runs

C14_ReplicationCommitted == [](C14_Committed) /\ [][C14_AnnounceStep]_vars

\* the announce has failed, the object fetched is in the store and another
\* candidate is still to come
C14_Witness ==
    /\ sweep.pc = "cand" /\ sweep.announced = "err"
    /\ sweep.todo # <<>>
    /\ Contains(hosted_repos, sweep.cur)
    /\ stats.replication_count = 1
    /\ read_object(FSnow, sweep.cur, "aa11bb22") = [st |-> "Ok", data |-> "hi"]

(* C15: when the query for under-replicated repositories fails, is         *)
(* answered with a non-success status or returns the empty list, the sweep *)
(* ends there: no peer is contacted and the hosted list, the counters, the *)
(* routing table and the store are unchanged.                              *)
C15_NoListNoEffect ==
    [][\A resp \in Failed(<<>>) \cup Bodies({<<>>}) :
          RegistryResponse(resp) =>
              /\ sweep'.pc = "idle"
              /\ reqLog' = <<>>
              /\ UNCHANGED <<dirs, files, hosted_repos, stats, dht, health>>]_vars

\* a second sweep that got no list, on a node whose first sweep replicated
C15_Witness ==
    /\ sweep.pc = "idle" /\ sweep.result = "NoList" /\ sweep.runs = 2
    /\ hosted_repos = <<"repo0001">>
    /\ stats.replication_count = 1
    /\ read_object(FSnow, "repo0001", "aa11bb22") = [st |-> "Ok", data |-> "hi"]

(* C16: replication makes progress: with auto-replication on, a           *)
(* repository that is not hosted and that the registry keeps reporting,    *)
(* whose size fits and whose peers serve it, is eventually in the hosted   *)
(* list once the replication task has been woken.                          *)
C16_Progress ==
    (sweep.pc = "woken" /\ config.auto_replicate
        /\ ~Contains(hosted_repos, "repo0001"))
    ~> Contains(hosted_repos, "repo0001")

(* C17: no background task ends because of one failed operation, whatever *)
(* identifiers it handles: a verification sweep, once it has run, has gone *)
(* through every repository of the hosted list it started with.            *)
C17_TasksSurvive ==
    health.verify.st # "none" =>
        /\ health.verify.st = "Ok"
        /\ health.verify.checked = health.verify.repos

(* C18: every outbound call is bounded by a timeout, so a sweep that has *)
(* started ends even when the registry or a peer never answers.          *)
C18_SweepEnds == (sweep.pc # "idle") ~> (sweep.pc = "idle")

(* C19: the hosted list is durable: the list start_node loads after a   *)
(* restart holds exactly the repositories hosted before the exit.       *)
C19_HostedDurable ==
    [][StartNode => SeqToSet(hosted_repos') = SeqToSet(hosted_repos)]_vars

(* C20: with auto_replicate off every sweep tick is skipped: the task   *)
(* never has a registry or peer call under way, and none of its steps   *)
(* changes the store, the hosted list, the counters or the DHT.         *)
C20_NoCall == ~config.auto_replicate => sweep.pc = "idle" /\ reqLog = <<>>
C20_TickFrame ==
    [][(~config.auto_replicate /\ sweep' # sweep) =>
          UNCHANGED <<dirs, files, hosted_repos, stats, dht>>]_vars
C20_DisabledSkips == []C20_NoCall /\ C20_TickFrame
C20_Witness ==
    /\ ~config.auto_replicate
    /\ sweep.runs = 2
    /\ Contains(hosted_repos, "repo0002")

(* C21: the verification sweep is started on exactly every 60th heartbeat *)
(* tick, whatever the heartbeats' outcomes, and the heartbeat task takes   *)
(* its next tick while a started sweep has not run yet.                    *)
C21_EveryNthTick ==
    /\ health.spawns = health.ticks \div 60
    /\ health.uptime < HeartbeatSecs * MaxTicks =>
          ENABLED HeartbeatTick(Resp("err", <<>>))
C21_Witness ==
    /\ health.ticks = 61
    /\ health.spawns = 1
    /\ health.spawned

(* C22: the verification sweep is diagnostic only: it visits every object *)
(* of every hosted repository and leaves the objects, the refs and the    *)
(* hosted list as they were.                                              *)
C22_DiagnosticOnly ==
    [][VerifyAllRepos =>
          /\ health'.verify.visited = CountObjects(FSnow, hosted_repos, 1)
          /\ UNCHANGED <<dirs, files, hosted_repos>>]_vars

(* C23: after a self-announcement tick every repository of the hosted list *)
(* has this node's id in its routing-table entry, and a node id leaves an   *)
(* entry only by an unannounce of that repository and node id.              *)
C23_TickAsserts ==
    [][AnnouncementTick =>
          \A r \in SeqToSet(hosted_repos) :
              Contains(query_content(dht', r), config.node_id)]_vars
C23_NeverExpires ==
    [][\A r \in RepoHashes, n \in NodeIds :
          (Contains(query_content(dht, r), n) /\ ~Contains(query_content(dht', r), n))
              => DhtUnannounce(r, n)]_vars
C23_Reasserted == C23_TickAsserts /\ C23_NeverExpires
C23_Witness ==
    /\ Len(hosted_repos) = 2
    /\ \A r \in SeqToSet(hosted_repos) : Count(query_content(dht, r), config.node_id) = 2
    /\ Contains(query_content(dht, "repo0001"), "node1111")

(* C24: a successful replication updates the node state and the routing  *)
(* table: when the candidate's success branch ends the repository is in   *)
(* the hosted list, and at the end of the sweep every repository the      *)
(* sweep added to the hosted list has this node's id in its routing-table *)
(* entry.                                                                 *)
C24_RoutingUpdated ==
    [][/\ (\E resp \in Failed(<<>>) \cup Bodies({<<>>}) : AnnounceResponse(resp))
            => Contains(hosted_repos', sweep.cur)
       /\ SweepEnd =>
            \A r \in RepoHashes :
                (Contains(hosted_repos, r) /\ ~Contains(sweep.hosted, r))
                    => Contains(query_content(dht, r), config.node_id)]_vars

(* C25: unannounce(repo_hash, node_id) leaves no occurrence of node_id in  *)
(* the entry however often it was announced, keeps the other node ids of   *)
(* the entry and every other entry, changes nothing when node_id or the    *)
(* repository is absent; a repository never announced queries as empty.    *)
C25_UnknownEmpty ==
    \A r \in RepoHashes \cup {"repo9999"} :
        r \notin DOMAIN dht => query_content(dht, r) = <<>>
C25_UnannounceStep ==
    [][\A r \in RepoHashes, n \in NodeIds :
          DhtUnannounce(r, n) =>
              /\ ~Contains(query_content(dht', r), n)
              /\ query_content(dht', r)
                    = SelectSeq(query_content(dht, r), LAMBDA m : m # n)
              /\ \A r2 \in RepoHashes \ {r} :
                    query_content(dht', r2) = query_content(dht, r2)
              /\ ~Contains(query_content(dht, r), n) => dht' = dht]_vars
C25_Unannounce == []C25_UnknownEmpty /\ C25_UnannounceStep
C25_Witness ==
    /\ "repo0001" \in DOMAIN dht
    /\ query_content(dht, "repo0001") = <<"node1111">>
    /\ "repo0002" \in DOMAIN dht
    /\ query_content(dht, "repo0002") = <<>>

(* C26: concurrent store_object calls do not interfere: when two calls   *)
(* under way at the same time have both returned, both succeeded; for     *)
(* different ids each id reads back its own writer's bytes, for the same  *)
(* id the read gives the whole bytes of one of the two.                   *)
C26_NoInterference ==
    LET a == writers[1]
        b == writers[2]
        ra == read_object(FSnow, a.repo, a.id)
        rb == read_object(FSnow, b.repo, b.id)
    IN  (a.pc = "done" /\ b.pc = "done") =>
            /\ a.st = "Ok" /\ b.st = "Ok"
            /\ ra.st = "Ok" /\ rb.st = "Ok"
            /\ IF <<a.repo, a.id>> # <<b.repo, b.id>>
               THEN ra.data = a.data /\ rb.data = b.data
               ELSE ra.data \in {a.data, b.data}
\* two writers of one id have returned and the file is neither's stream:
\* the shorter stream followed by the end of the longer one
C26_Witness ==
    LET a == writers[1]
        b == writers[2]
        p == object_path(a.repo, a.id)
    IN  /\ a.pc = "done" /\ b.pc = "done"
        /\ <<a.repo, a.id>> = <<b.repo, b.id>>
        /\ files[p] \notin {Compress(a.data), Compress(b.data)}

(* C27: delete_repo(repo_hash) clears objects and refs together: after it *)
(* the repository lists no objects, its objects and refs (HEAD too) read   *)
(* as not found and it is not among the stored repositories, while every   *)
(* other repository's objects and refs are as before; on an absent         *)
(* repository nothing changes.                                             *)
C27_DeleteClears ==
    [][\A r \in RepoHashes :
          DeleteRepo(r) =>
              LET old == FSnow
                  new == FS(dirs', files')
              IN  /\ IsOk(delete_repo(old, r))
                  /\ list_objects(new, r) = [st |-> "Ok", objects |-> <<>>]
                  /\ \A id \in ObjectIds : read_object(new, r, id).st = "NotFound"
                  /\ \A n \in RefNames : read_ref(new, r, n).st = "NotFound"
                  /\ ~Contains(list_hosted_repos(new), r)
                  /\ \A r2 \in RepoHashes \ {r} :
                        /\ list_objects(new, r2) = list_objects(old, r2)
                        /\ \A id \in ObjectIds :
                              read_object(new, r2, id) = read_object(old, r2, id)
                        /\ \A n \in RefNames :
                              read_ref(new, r2, n) = read_ref(old, r2, n)
                        /\ Contains(list_hosted_repos(new), r2)
                              = Contains(list_hosted_repos(old), r2)
                  /\ ~Exists(old, repo_path(r)) => new = old]_vars
\* repo0001 had an object and a ref stored and is gone; repo0002 still reads
C27_Witness ==
    /\ written[<<"repo0001", "aa11bb22">>] # None
    /\ lastRef[<<"repo0001", <<"refs", "heads", "main">>>>] # None
    /\ ~Exists(FSnow, repo_path("repo0001"))
    /\ read_object(FSnow, "repo0002", "aa11bb22").st = "Ok"
    /\ read_ref(FSnow, "repo0002", <<"refs", "heads", "main">>).st = "Ok"

C29_PackValue ==
    \A r \in RepoHashes :
        LET l == list_objects(FSnow, r)
            p == create_pack(FSnow, r)
            n == Len(l.objects)
            bytes == [i \in 1..n |-> written[<<r, l.objects[i]>>][1]]
            \* the bytes of objects 1..k joined
            Joined[k \in 0..n] == IF k = 0 THEN "" ELSE Joined[k - 1] \o bytes[k]
        IN  /\ l.st = "Ok" /\ p.st = "Ok"
            /\ \A i \in 1..n : <<r, l.objects[i]>> \in Keys
                                  /\ written[<<r, l.objects[i]>>] # None
            /\ \A k \in Keys : (k[1] = r /\ written[k] # None)
                                  => Count(l.objects, k[2]) = 1
            /\ p.data = Joined[n]
            /\ Len(p.data) = SumSeq([i \in 1..n |-> Len(bytes[i])])
            /\ (n = 0) => p.data = ""
C29_PackStep ==
    [][\A r \in RepoHashes :
          ApiGetPackfile(r) =>
              /\ UNCHANGED <<dirs, files, hosted_repos>>
              /\ stats'.bytes_served
                    = stats.bytes_served + Len(create_pack(FSnow, r).data)]_vars
C29_PackContents == []C29_PackValue /\ C29_PackStep
\* a packfile of two objects with different bytes was served
C29_Witness ==
    /\ Len(list_objects(FSnow, "repo0001").objects) >= 2
    /\ \E a, b \in {"hi", "yo"} :
          a # b /\ create_pack(FSnow, "repo0001").data = a \o b
    /\ stats.bytes_served >= 4

(* C30: a candidate that is skipped or fails never keeps the remaining     *)
(* candidates of the sweep from being processed: whenever the sweep's task  *)
(* has stopped or its loop is over, no candidate that was not hosted at the *)
(* sweep's start is still waiting, behind the one in progress, for its size *)
(* query.                                                                   *)
C30_Isolation ==
    LET waiting == IF sweep.pc = "panicked" THEN Tail(sweep.todo) ELSE sweep.todo
    IN  (sweep.pc = "panicked" \/ ENABLED SweepEnd) =>
           \A i \in 1..Len(waiting) : Contains(sweep.hosted, waiting[i])

(* C31: a sweep replicates only candidates that are not locally hosted     *)
(* when it reaches them, whether they were hosted before the sweep started  *)
(* or were added by an API request during it: a candidate that is past its  *)
(* size query was not in the hosted list when the sweep reached it.         *)
C31_OnlyUnhosted ==
    sweep.pre # None => ~Contains(sweep.pre[1].hosted, sweep.cur)

(* C32: the hosted list and the counters are updated in separate steps:    *)
(* a step that increments replication_count is taken with the candidate     *)
(* already in the hosted list, adds exactly one and leaves the hosted list  *)
(* alone, and the step in which the sweep pushes the candidate leaves the   *)
(* counters alone, so the repository is seen hosted before it is counted.   *)
C32_HostedBeforeCount ==
    [][ /\ stats'.replication_count # stats.replication_count =>
             /\ sweep.pc = "stats"
             /\ Contains(hosted_repos, sweep.cur)
             /\ hosted_repos' = hosted_repos
             /\ stats' = [stats EXCEPT !.replication_count = @ + 1]
        /\ (sweep.pc = "obj" /\ sweep'.pc = "stats") =>
             /\ Contains(hosted_repos', sweep.cur)
             /\ stats' = stats ]_vars

C32_Witness ==
    /\ sweep.pc = "stats" /\ sweep.cur = "repo0001"
    /\ ~Contains(sweep.hosted, "repo0001")
    /\ Contains(hosted_repos, "repo0001")
    /\ stats.replication_count = 0

(* C33: under any interleaving of the store, batch-store and init requests, *)
(* the replication sweeps and the load at start-up, the hosted list holds   *)
(* each repo_hash at most once.                                             *)
C33_HostedUnique ==
    \A i, j \in 1..Len(hosted_repos) : hosted_repos[i] = hosted_repos[j] => i = j

\* a sweep finished replicating a candidate that an API request had already
\* pushed when the sweep reached it, next to a second hosted repository
C33_Witness ==
    /\ sweep.result = "Ok" /\ sweep.pre # None
    /\ Contains(sweep.pre[1].hosted, sweep.cur)
    /\ Count(hosted_repos, sweep.cur) = 1
    /\ Len(hosted_repos) = 2
    /\ batch.pc = "done"

(* C34: replication work is strictly sequential: a sweep starts only when  *)
(* no sweep is running, a sweep moves to a candidate only when it is between*)
(* candidates, and of the peer attempts made for the current candidate only *)
(* the last can be in progress.                                             *)
C34_StartsIdle ==
    [][ /\ sweep'.runs # sweep.runs => sweep.pc = "idle"
        /\ (sweep'.cur # sweep.cur /\ sweep'.cur # "") => sweep.pc = "cand"
        /\ Len(reqLog') > Len(reqLog) =>
              /\ sweep.pc = "peer"
              /\ \A i \in 1..Len(reqLog) : reqLog[i].res = "Err" ]_vars

C34_OneAtATime ==
    /\ \A i \in 1..Len(reqLog) : reqLog[i].res = "run" => i = Len(reqLog)
    /\ sweep.pc \in {"nodes", "peer", "list", "obj", "stats", "announce"} =>
          /\ sweep.todo # <<>> /\ sweep.cur = Head(sweep.todo)
    /\ sweep.pc \in {"list", "obj"} =>
          /\ Len(reqLog) = sweep.pi /\ reqLog[sweep.pi].res = "run"

C34_Sequential == []C34_OneAtATime /\ C34_StartsIdle

\* the second sweep's second candidate is being fetched from its second peer
C34_Witness ==
    /\ sweep.runs = 2 /\ sweep.pc = "list" /\ Len(reqLog) = 2
    /\ reqLog[1].res = "Err" /\ reqLog[2].res = "run"
    /\ sweep.cur = "repo0002"

(* C35: the three shared locks never deadlock: in no reachable state is a  *)
(* task waiting for a lock while no task is running and no worker can poll  *)
(* one, so every request for a lock is granted in the end.                  *)
C35_NoDeadlock ==
    (\E l \in LockNames : locks.queue[l] # <<>>) =>
        \/ \E t \in Tasks : locks.tk[t].on = "run"
        \/ \E t \in Tasks, w \in Workers : CanPoll(t, w)

(* C36: init_repo on an initialized repository leaves its contents as they *)
(* were: every object reads back as before and every ref, HEAD as written   *)
(* by update_ref included, has the value it had.                            *)
C36_InitKeepsContents ==
    \A r \in RepoHashes :
        LET after == init_repo(FSnow, r)
        IN  ( /\ IsDir(FSnow, objects_path(r))
              /\ IsDir(FSnow, refs_path(r) \o <<"heads">>)
              /\ IsDir(FSnow, refs_path(r) \o <<"tags">>)
              /\ IsFile(FSnow, head_path(r)) ) =>
            /\ IsOk(after)
            /\ \A id \in ObjectIds :
                  read_object(after.fs, r, id) = read_object(FSnow, r, id)
            /\ \A n \in RefNames :
                  read_ref(after.fs, r, n) = read_ref(FSnow, r, n)

(* C37: update_ref, for every ref name the endpoint accepts, changes only  *)
(* that ref of that repository: every stored object of every repository    *)
(* still reads back its bytes and verifies as before, and the refs of the   *)
(* other repositories are unchanged.                                        *)
C37_UpdateRefFrame ==
    \A r \in RepoHashes, n \in EndpointRefNames, c \in Commits :
        LET after == update_ref(FSnow, r, n, c)
        IN  /\ \A k \in Keys :
                 written[k] # None =>
                    /\ read_object(after.fs, k[1], k[2])
                          = read_object(FSnow, k[1], k[2])
                    /\ verify_object(after.fs, k[1], k[2])
                          = verify_object(FSnow, k[1], k[2])
            /\ \A r2 \in RepoHashes \ {r}, n2 \in RefNames :
                 read_ref(after.fs, r2, n2) = read_ref(FSnow, r2, n2)

(* C38: a failed single-object store request leaves the node unchanged:    *)
(* when the payload is malformed or the write fails, every object reads     *)
(* back and is listed as before, and the hosted list and the counters are   *)
(* what they were; a store request changes the hosted list only when its    *)
(* write succeeded.                                                         *)
C38_FailedStoreUnchanged ==
    [][ LET ok == \E id \in ObjectIds, p \in Payloads :
                     /\ ApiStoreObject("repo0001", id, p, TRUE)
                     /\ IsOk(store_object(FSnow, "repo0001", id,
                                          Base64Decode(p).data, TRUE))
            failed == \E id \in ObjectIds, p \in Payloads :
                         \/ ApiStoreObject("repo0001", id, p, FALSE)
                         \/ ApiStoreObjectRejected("repo0001", id, p)
                         \/ ApiStoreObjectTorn("repo0001", id, p)
        IN  /\ (failed /\ ~ok) =>
                 /\ hosted_repos' = hosted_repos /\ stats' = stats
                 /\ \A k \in Keys :
                       read_object(FS(dirs', files'), k[1], k[2])
                          = read_object(FSnow, k[1], k[2])
                 /\ \A r \in RepoHashes :
                       list_objects(FS(dirs', files'), r) = list_objects(FSnow, r)
            /\ hosted_repos' # hosted_repos =>
                 \/ ok
                 \/ ApiInitRepo("repo0002") ]_vars

(* C39: under any interleaving of requests and background tasks the       *)
(* counters total_requests, failed_requests, bytes_served and               *)
(* replication_count never decrease, failed_requests never exceeds          *)
(* total_requests, and a step that counts a failed read adds nothing to     *)
(* bytes_served.                                                            *)
C39_FailedWithinTotal == stats.failed_requests <= stats.total_requests

C39_Monotone ==
    [][ /\ stats'.total_requests >= stats.total_requests
        /\ stats'.failed_requests >= stats.failed_requests
        /\ stats'.bytes_served >= stats.bytes_served
        /\ stats'.replication_count >= stats.replication_count
        /\ stats'.failed_requests # stats.failed_requests =>
              stats'.bytes_served = stats.bytes_served ]_vars

C39_Counters == []C39_FailedWithinTotal /\ C39_Monotone

\* one read failed, one read and a pack request were served, and a sweep
\* replicated a repository
C39_Witness ==
    /\ stats.total_requests = 2 /\ stats.failed_requests = 1
    /\ stats.bytes_served >= 2 /\ stats.replication_count >= 1
    /\ locks.tk["get1"].on = "done" /\ locks.tk["get2"].on = "done"

====
